---- MODULE Spec2Model ----
(***************************************************************************)
(* Model of the ChaCha backend (src/backend/app.py): the /llama-chat and   *)
(* /llama-chat-stream request handlers, the retrieval-confidence scorer    *)
(* and the fallback template bank.                                         *)
(*                                                                         *)
(* Units.  A top-1 distance is an integer number of hundredths (30 is      *)
(* 0.30); a reliability score is an integer number of two-hundredths (140  *)
(* is 0.70), so that 1 - d and 1 - d/2 are both exact on the grid.         *)
(*                                                                         *)
(* Strings.  A prompt is one of the literal strings of PromptSet; the      *)
(* string operations of the code (strip, lower, replace, "in", ==) are     *)
(* tabulated on that set.  A produced text is a record                     *)
(*   [tpl, hi, len, term]                                                  *)
(* naming the template (or "llm" for decoded model output), whether it is  *)
(* Devanagari text, its length and whether its last character is one of    *)
(* '.', '!', '?'.                                                          *)
(***************************************************************************)
EXTENDS Integers, Sequences, FiniteSets, TLC

VARIABLES
    server,   \* module-level state of app.py: RAG components, model, environment
    pc,       \* position of the request being handled
    loc,      \* locals of the running handler
    calls,    \* external calls made while handling the current request
    resp,     \* the HTTP response of the current request
    stream    \* the NDJSON body, the streamer queue and the generation thread

vars == <<server, pc, loc, calls, resp, stream>>

----------------------------------------------------------------------------
(* Bounds of the model *)

\* largest number of text pieces one streamed generation puts on the queue
MaxPieces == 2

\* length of a continuation text produced by the second generate call
ContLen == 5

\* largest top-1 distance given to the scorer, in hundredths
MaxDist == 250

----------------------------------------------------------------------------
(* Program constants *)

\* rag_score = None
NoScore == -1

\* no top-1 distance: D has zero columns
NoDist == -1000

\* len(result) > 40 in the truncation test
TRUNC_MIN_LEN == 40

\* k of index.search(query_arr, k=3)
TOP_K == 3

----------------------------------------------------------------------------
(* Strings of the requests *)

NoPrompt == "<missing>"

WELCOME_TRIGGER_TEXT == "hello, i'm interested in learning about the namami gange programme."

\* prompts a client sends; NoPrompt is a body without the field
PromptSet ==
    { NoPrompt, "", "User: Hey",
      "Hello, I'm interested in learning about the Namami Gange Programme",
      "what is namami gange", "tell me a story about the ganga river",
      "tell me more", "what is photosynthesis" }

\* prompt.replace(marker, "") for the four role markers
StripRoleTags(p) == IF p = "User: Hey" THEN " Hey" ELSE p

\* (prompt or '').strip().lower()
StripLower(p) ==
    CASE p = " Hey" -> "hey"
      [] p = "User: Hey" -> "user: hey"
      [] p = "Hello there" -> "hello there"
      [] p = "Hello, I'm interested in learning about the Namami Gange Programme"
           -> "hello, i'm interested in learning about the namami gange programme"
      [] p = NoPrompt -> ""
      [] OTHER -> p

\* _norm: keep alphanumerics and spaces of the lowered string, then strip
Norm(s) ==
    CASE s = "hello, i'm interested in learning about the namami gange programme"
           -> "hello im interested in learning about the namami gange programme"
      [] s = "hello, i'm interested in learning about the namami gange programme."
           -> "hello im interested in learning about the namami gange programme"
      [] s = "what is photosynthesis" -> "what is photosynthesis"
      [] OTHER -> s

\* simple in ("hi", "hello", "hey", "yo", "hola", "namaste")
IsBareGreeting(s) == s \in {"hi", "hello", "hey", "yo", "hola", "namaste"}

\* lt in greetings or lt.startswith(g + " ")
IsGreetingTopic(lt) ==
    \/ lt \in {"hi", "hello", "hey", "yo", "hola", "namaste", "hi!", "hello!", "hey!"}
    \/ lt = "hello there"

HasNamami(lt) ==
    lt \in {"what is namami gange",
            "hello, i'm interested in learning about the namami gange programme"}

HasGangaRiver(lt) == lt = "tell me a story about the ganga river"

HasStory(lt) == lt = "tell me a story about the ganga river"

\* _is_expand_request
IsExpandRequest(lt) == lt = "tell me more"

\* lang_hint and str(lang_hint).strip().lower().startswith('hi')
IsHindi(lang) == lang \in {"hi", "hi-IN"}

\* the `lang` field of the body; "" is a body without the field
LangSet == {"", "en-IN", "hi-IN"}

\* ageGroup values of the body; "" is a body without the field
AgeSet == {"", "kid", "Kids", "teen"}

\* normalisation of age_group in llama_chat
NormAge(a) == IF a = "Kids" THEN "kid" ELSE a

\* the `fallback` field of the body: absent, a JSON boolean or a string
FallbackSet == {"<absent>", "<True>", "<False>", "yes", "no"}

\* isinstance(fb_req, bool) / isinstance(fb_req, str) branches
FallbackRequested(fb) == fb \in {"<True>", "1", "true", "yes"}

----------------------------------------------------------------------------
(* Texts *)

Tpl(name, hi) == [tpl |-> name, hi |-> hi, len |-> TRUNC_MIN_LEN + 1, term |-> TRUE]

EmptyText == [tpl |-> "none", hi |-> FALSE, len |-> 0, term |-> FALSE]

LlmText(n, t, hi) == [tpl |-> "llm", hi |-> hi, len |-> n, term |-> t]

\* WELCOME_MESSAGE: one English string whatever the language hint
WelcomeMessage == Tpl("welcome", FALSE)

KidStoryFallback(topic, lang) == Tpl("kid_story", IsHindi(lang))

DetailedAbout(topic, ag, lang) == Tpl("detailed", IsHindi(lang))

ConversationalFallback(topic, ag, lang) ==
    LET lt == StripLower(topic) IN
    IF IsGreetingTopic(lt) THEN Tpl("greeting", IsHindi(lang))
    ELSE IF HasNamami(lt) THEN Tpl("namami", IsHindi(lang))
    ELSE IF HasGangaRiver(lt) THEN Tpl("ganga", IsHindi(lang))
    ELSE IF IsExpandRequest(lt) THEN DetailedAbout(topic, ag, lang)
    ELSE IF ag = "kid" THEN Tpl("kid_generic", IsHindi(lang))
    ELSE Tpl("generic", IsHindi(lang))

\* the templated answers of the fallback bank
FallbackTemplates ==
    {"welcome", "greeting", "namami", "ganga", "detailed", "kid_generic", "generic",
     "kid_story", "notes_kid", "notes", "notes_weak"}

----------------------------------------------------------------------------
(* Retrieval-confidence scorer *)

Max2(a, b) == IF a >= b THEN a ELSE b
Min2(a, b) == IF a <= b THEN a ELSE b

\* a scorer that halves nothing: 1 - d/2 in both regimes
RagScoreMutRegime(d0) ==
    IF d0 = NoDist THEN NoScore
    ELSE IF 0 <= d0 /\ d0 <= 100 THEN Max2(0, Min2(200, 200 - d0))
    ELSE IF 0 <= d0 /\ d0 <= 200 THEN Max2(0, Min2(200, 200 - d0))
    ELSE NoScore

\* rag_score from the top-1 distance d0
RagScore(d0) ==
    IF d0 = NoDist THEN NoScore
    ELSE IF 0 <= d0 /\ d0 <= 100 THEN Max2(0, Min2(200, 200 - 2 * d0))
    ELSE IF 0 <= d0 /\ d0 <= 200 THEN Max2(0, Min2(200, 200 - d0))
    ELSE NoScore

\* a classification that forgets to look at the retrieved chunks
RagReliableMutNoCount(n, score) == score # NoScore /\ score >= 140

\* rag_reliable = bool(retrieved_chunks) and (rag_score is not None and rag_score >= 0.70)
RagReliable(n, score) == n > 0 /\ score # NoScore /\ score >= 140

----------------------------------------------------------------------------
(* Token budget of one generation *)

PresetTokens(device, speed) ==
    IF device = "cpu"
    THEN CASE speed = "fast" -> 48 [] speed = "balanced" -> 72 [] OTHER -> 104
    ELSE CASE speed = "fast" -> 128 [] speed = "balanced" -> 196 [] OTHER -> 320

KidTokens(device, speed) ==
    IF device = "cpu"
    THEN CASE speed = "fast" -> 100 [] speed = "balanced" -> 140 [] OTHER -> 180
    ELSE CASE speed = "fast" -> 200 [] speed = "balanced" -> 300 [] OTHER -> 420

TeenTokens(device, speed) ==
    IF device = "cpu"
    THEN CASE speed = "fast" -> 60 [] speed = "balanced" -> 80 [] OTHER -> 100
    ELSE CASE speed = "fast" -> 110 [] speed = "balanced" -> 160 [] OTHER -> 220

\* max_new_tokens of llama_chat without a LLAMA_MAX_NEW_TOKENS override
MaxNewTokens(device, speed, age, lang, prompt) ==
    LET base == PresetTokens(device, speed)
        boosted == IF IsHindi(lang) \/ HasStory(StripLower(prompt))
                   THEN (base * 5) \div 4 ELSE base
    IN  IF age = "kid"
        THEN Min2(Max2(boosted, KidTokens(device, speed)), KidTokens(device, "quality"))
        ELSE IF age = "teen" THEN Min2(boosted, TeenTokens(device, speed))
        ELSE boosted

\* sampling parameters, in hundredths

\* top_p = 0.9
TOP_P == 90

\* temperature = 0.2
BASE_TEMPERATURE == 20

\* temperature after the language and age adjustments of llama_chat
Temperature(age, lang) ==
    IF age = "kid" THEN 70
    ELSE IF age = "teen" THEN 40
    ELSE IF IsHindi(lang) THEN Max2(BASE_TEMPERATURE, 45)
    ELSE BASE_TEMPERATURE

\* do_sample of generate_kwargs
DoSample(device, temperature, top_p) ==
    IF temperature > 0 \/ top_p < 100 THEN TRUE ELSE device # "cpu"

----------------------------------------------------------------------------
(* Responses *)

NoResp ==
    [status |-> 0, keys |-> {}, result |-> EmptyText, llm_used |-> FALSE,
     source |-> "", rag_score |-> NoScore, retrieved_count |-> 0]

ErrorResp(code) == [NoResp EXCEPT !.status = code, !.keys = {"error"}]

\* the welcome response of llama_chat
WelcomeResp ==
    [NoResp EXCEPT !.status = 200,
        !.keys = {"result", "retrieved_count", "rag_score", "source", "temperature",
                  "top_p", "used_max_new_tokens", "latency_ms", "wants_long", "llm_used"},
        !.result = WelcomeMessage, !.source = "general", !.llm_used = FALSE]

\* the greeting-shortcut response of llama_chat
GreetingResp(base) ==
    [NoResp EXCEPT !.status = 200,
        !.keys = {"result", "retrieved_count", "temperature", "top_p",
                  "used_max_new_tokens", "latency_ms", "wants_long"},
        !.result = base]

\* the forced / no-model fallback response of llama_chat
FallbackResp(result, l) ==
    [NoResp EXCEPT !.status = 200,
        !.keys = {"result", "retrieved_count", "rag_score", "source", "temperature",
                  "top_p", "used_max_new_tokens", "latency_ms", "wants_long"},
        !.result = result, !.retrieved_count = l.retrieved,
        !.rag_score = l.rag_score,
        !.source = IF l.rag_reliable THEN "rag" ELSE "general"]

\* a response whose llm_used looks at where the text came from
GeneratedRespMutTruthful(result, l, model_missing) ==
    [NoResp EXCEPT !.status = 200,
        !.keys = {"result", "retrieved_count", "rag_score", "source", "temperature",
                  "top_p", "used_max_new_tokens", "latency_ms", "wants_long", "llm_used"},
        !.result = result, !.retrieved_count = l.retrieved,
        !.rag_score = l.rag_score,
        !.source = IF l.rag_reliable THEN "rag" ELSE "general",
        !.llm_used = (result.tpl = "llm")]

\* the response after generation in llama_chat
GeneratedResp(result, l, model_missing) ==
    [NoResp EXCEPT !.status = 200,
        !.keys = {"result", "retrieved_count", "rag_score", "source", "temperature",
                  "top_p", "used_max_new_tokens", "latency_ms", "wants_long", "llm_used"},
        !.result = result, !.retrieved_count = l.retrieved,
        !.rag_score = l.rag_score,
        !.source = IF l.rag_reliable THEN "rag" ELSE "general",
        !.llm_used = ~(l.force_fallback \/ model_missing)]

----------------------------------------------------------------------------
(* State *)

\* a test that looks at the model alone
ModelMissingMutLlmOnly == ~server.llm

\* model_missing = tokenizer is None or llm is None
ModelMissing == ~server.tokenizer \/ ~server.llm

LocIdle ==
    [endpoint |-> "none", prompt |-> "", lang_hint |-> "",
     age_group |-> "", fb_req |-> FALSE, force_fallback |-> FALSE,
     welcome |-> FALSE, kid_greeting_story |-> FALSE,
     retrieved |-> 0, readable |-> FALSE, d0 |-> NoDist, rag_score |-> NoScore,
     rag_reliable |-> FALSE, trust_line |-> {},
     max_new_tokens |-> 0, temperature |-> 0, top_p |-> 0, do_sample |-> FALSE,
     gen_token_count |-> 0, first |-> EmptyText,
     truncated |-> FALSE, cont |-> "none", result |-> EmptyText]

NoCalls == [generate |-> 0, continuation |-> 0, search |-> 0]

NoStream == [lines |-> <<>>, queue |-> <<>>, thread |-> "none", pieces |-> 0]

\* the module-level state after import: rag_utils imported or not, the
\* tokenizer and the model loaded or not, TextIteratorStreamer importable or
\* not, and the environment
Servers ==
    [rag_ready : BOOLEAN, tokenizer : BOOLEAN, llm : BOOLEAN, streamer : BOOLEAN,
     LLAMA_ALLOW_FALLBACK_WITHOUT_RAG : BOOLEAN, LLAMA_FORCE_FALLBACK : BOOLEAN,
     device : {"cpu", "cuda"}]

Init ==
    /\ server \in Servers
    \* the override is read only when a RAG component is None, the streamer
    \* class only when the tokenizer and the model are loaded, and _LLM_DEVICE
    \* is "cpu" unless the loaded model says otherwise
    /\ server.LLAMA_ALLOW_FALLBACK_WITHOUT_RAG => ~server.rag_ready
    /\ ~server.streamer => (server.tokenizer /\ server.llm)
    /\ server.device # "cpu" => server.llm
    /\ pc = "idle"
    /\ loc = LocIdle
    /\ calls = NoCalls
    /\ resp = NoResp
    /\ stream = NoStream

\* a request body of /llama-chat or /llama-chat-stream
Requests ==
    [prompt : PromptSet, lang : LangSet, ageGroup : AgeSet, fallback : FallbackSet,
     welcome : BOOLEAN]

\* what one retrieval returns: the top-1 distance, the number of indices that
\* name an existing chunk, and whether the top chunk passes _is_chunk_readable
RetrievalOutcomes ==
    {[d0 |-> NoDist, n |-> 0, readable |-> FALSE]} \cup
    {o \in [d0 : {30, 31, 150, 201}, n : {0, TOP_K}, readable : BOOLEAN] :
        o.n = 0 => ~o.readable}

----------------------------------------------------------------------------
(* POST /llama-chat *)

\* entry of llama_chat up to the first call of the model
ChatBegin(r) ==
    /\ pc = "idle"
    /\ calls' = NoCalls
    /\ stream' = NoStream
    /\ UNCHANGED server
    /\ LET seen == [LocIdle EXCEPT !.endpoint = "chat", !.prompt = r.prompt,
                                   !.fb_req = FallbackRequested(r.fallback)]
       IN
       IF ~server.rag_ready /\ ~server.LLAMA_ALLOW_FALLBACK_WITHOUT_RAG
       THEN /\ resp' = ErrorResp(503)
            /\ loc' = seen
            /\ pc' = "done"
       ELSE IF r.prompt \in {NoPrompt, ""}
       THEN /\ resp' = ErrorResp(400)
            /\ loc' = seen
            /\ pc' = "done"
       ELSE /\ resp' = NoResp
            /\ loc' = [seen EXCEPT
                        !.prompt = StripRoleTags(r.prompt),
                        !.lang_hint = r.lang,
                        !.age_group = NormAge(r.ageGroup),
                        !.welcome = r.welcome,
                        !.force_fallback =
                            FallbackRequested(r.fallback) \/ server.LLAMA_FORCE_FALLBACK]
            /\ pc' = IF IsHindi(r.lang) THEN "translate_in" ELSE "route"

\* what a call of one of the two translation helpers does
TranslateOutcomes == {"tok_raise", "gen_raise", "empty", "text"}

\* _translate_with_llm_to_english(prompt) and the assignment of its result
ChatTranslateIn(o, p) ==
    /\ pc = "translate_in"
    /\ UNCHANGED <<server, resp, stream>>
    /\ pc' = "route"
    /\ IF ModelMissing
       THEN UNCHANGED <<loc, calls>>
       ELSE /\ calls' = [calls EXCEPT !.generate =
                            IF o = "tok_raise" THEN @ ELSE @ + 1]
            /\ loc' = [loc EXCEPT !.prompt = IF o = "text" THEN p ELSE @]

\* the welcome and greeting shortcuts of llama_chat
ChatRoute ==
    /\ pc = "route"
    /\ UNCHANGED <<server, calls, stream>>
    /\ LET simple == StripLower(loc.prompt)
           is_welcome == loc.welcome \/ Norm(simple) = Norm(WELCOME_TRIGGER_TEXT)
       IN
       IF is_welcome
       THEN /\ resp' = WelcomeResp
            /\ loc' = [loc EXCEPT !.result = WelcomeMessage]
            /\ pc' = "done"
       ELSE IF IsBareGreeting(simple)
       THEN IF loc.age_group = "kid" /\ ~(loc.force_fallback \/ ModelMissing)
            THEN /\ loc' = [loc EXCEPT !.kid_greeting_story = TRUE]
                 /\ resp' = resp
                 /\ pc' = "retrieve"
            ELSE LET base == ConversationalFallback(loc.prompt, loc.age_group, loc.lang_hint)
                 IN /\ resp' = GreetingResp(base)
                    /\ loc' = [loc EXCEPT !.result = base]
                    /\ pc' = "done"
       ELSE /\ UNCHANGED <<loc, resp>>
            /\ pc' = "retrieve"

\* the templated answer of the forced / no-model branch
FallbackResult(l) ==
    LET hi == IsHindi(l.lang_hint)
        fromNotes ==
            IF l.retrieved = 0 THEN EmptyText
            ELSE IF l.age_group = "kid"
                 THEN IF l.rag_reliable /\ l.readable
                      THEN Tpl("notes_kid", hi)
                      ELSE KidStoryFallback(l.prompt, l.lang_hint)
                 ELSE IF l.rag_reliable /\ l.readable THEN Tpl("notes", hi)
                 ELSE IF l.readable THEN Tpl("notes_weak", hi)
                 ELSE EmptyText
    IN  IF fromNotes.len > 0 THEN fromNotes
        ELSE IF l.age_group = "kid" THEN KidStoryFallback(l.prompt, l.lang_hint)
        ELSE ConversationalFallback(l.prompt, l.age_group, l.lang_hint)

\* two separate tests instead of if / else: the weak line is always added
TrustLinesMutBoth(rag_reliable) ==
    (IF rag_reliable THEN {"primary"} ELSE {}) \cup {"weak"}

\* the context-trust instructions appended to persona_lines: "primary" is
\* the line "Use the context below as your primary source ...", "weak" the
\* line "Context appears weak or missing ..."
TrustLines(rag_reliable) == IF rag_reliable THEN {"primary"} ELSE {"weak"}

\* locals after embedder.encode, index.search, the scorer and the prompt
\* assembly
Retrieved(l, o) ==
    LET score == RagScore(o.d0)
        reliable == RagReliable(o.n, score)
    IN  [l EXCEPT !.retrieved = o.n, !.d0 = o.d0,
                  !.rag_score = score, !.rag_reliable = reliable,
                  !.trust_line = TrustLines(reliable)]

\* retrieval, scoring, prompt assembly and the fallback branch of llama_chat
ChatRetrieve(o) ==
    /\ pc = "retrieve"
    /\ UNCHANGED <<server, stream>>
    /\ IF ~server.rag_ready
       THEN \* embedder is None: the AttributeError reaches the outer handler
            /\ resp' = ErrorResp(500)
            /\ UNCHANGED <<loc, calls>>
            /\ pc' = "done"
       ELSE LET l == Retrieved(loc, o) IN
            /\ calls' = [calls EXCEPT !.search = @ + 1]
            /\ IF l.force_fallback \/ ModelMissing
               THEN LET lf == [l EXCEPT !.readable = o.readable]
                        result == FallbackResult(lf)
                    IN
                    /\ loc' = [lf EXCEPT !.result = result]
                    /\ resp' = FallbackResp(result, lf)
                    /\ pc' = "done"
               ELSE /\ loc' = [l EXCEPT !.max_new_tokens =
                                    MaxNewTokens(server.device, "balanced", l.age_group,
                                                 l.lang_hint, l.prompt),
                                  !.temperature = Temperature(l.age_group, l.lang_hint),
                                  !.top_p = TOP_P]
                    /\ resp' = resp
                    /\ pc' = "generate"

\* what tokenizer(...) followed by llm.generate(...) and decode can do with a
\* budget of max new tokens: the tokenizer raises, generate raises, or count
\* tokens decode to a text of length len (term: it ends in '.', '!' or '?';
\* meta: its first line echoes a <SYS>/<CONTEXT>/<CONV> section)
GenOutcomes(max) ==
    {[kind |-> k, count |-> 0, len |-> 0, term |-> FALSE, meta |-> FALSE] :
        k \in {"tok_raise", "gen_raise"}} \cup
    {g \in [kind : {"ok"}, count : {max - 3, max - 2},
            len : {0, TRUNC_MIN_LEN, TRUNC_MIN_LEN + 1}, term : BOOLEAN,
            meta : BOOLEAN] :
        /\ g.len = 0 => (~g.term /\ ~g.meta)
        /\ g.len = TRUNC_MIN_LEN => ~g.term
        /\ g.meta => g.term
        /\ g.count = max - 2 => g.term}

\* the line filter applied to the decoded text: an echoed section header on
\* the first line leaves nothing
CleanOutput(g) == IF g.meta THEN EmptyText ELSE LlmText(g.len, g.term, FALSE)

\* a truncation test without the length guard
TruncatedCandidateMutNoLen(count, max, result) ==
    \/ (max # 0 /\ count >= max - 2)
    \/ (result.len > 0 /\ ~result.term)

\* truncated_candidate
TruncatedCandidate(count, max, result) ==
    \/ (max # 0 /\ count >= max - 2)
    \/ (result.len > 0 /\ ~result.term /\ result.len > TRUNC_MIN_LEN)

\* an empty guard that keeps whatever was decoded
EmptyGuardMutKeep(result, l) == result

\* if not result: result = _conversational_fallback(...)
EmptyGuard(result, l) ==
    IF result.len = 0
    THEN ConversationalFallback(l.prompt, l.age_group, l.lang_hint)
    ELSE result

AfterGeneration(l) == IF IsHindi(l.lang_hint) THEN "translate_out" ELSE "done"

\* the response of a handler that is past generation
AfterGenerationResp(l) ==
    IF IsHindi(l.lang_hint) THEN NoResp ELSE GeneratedResp(l.result, l, ModelMissing)

\* tokenizer(full_prompt), the first llm.generate, cleaning and the
\* truncation test
ChatGenerate(g) ==
    /\ pc = "generate"
    /\ UNCHANGED <<server, stream>>
    /\ IF g.kind = "tok_raise"
       THEN \* the tokenizer call is outside the inner try
            /\ resp' = ErrorResp(500)
            /\ UNCHANGED <<loc, calls>>
            /\ pc' = "done"
       ELSE /\ calls' = [calls EXCEPT !.generate = @ + 1]
            /\ IF g.kind = "gen_raise"
               THEN /\ loc' = [loc EXCEPT !.result =
                                 ConversationalFallback(loc.prompt, loc.age_group,
                                                        loc.lang_hint),
                                 !.cont = "gen_failed",
                                 !.do_sample = DoSample(server.device, loc.temperature,
                                                        loc.top_p)]
                    /\ pc' = AfterGeneration(loc)
               ELSE LET result == CleanOutput(g)
                        trunc == TruncatedCandidate(g.count, loc.max_new_tokens, result)
                        l == [loc EXCEPT !.gen_token_count = g.count,
                                         !.first = result, !.truncated = trunc,
                                         !.do_sample = DoSample(server.device,
                                                                loc.temperature, loc.top_p)]
                    IN  IF trunc /\ ~(loc.force_fallback \/ ModelMissing)
                        THEN /\ loc' = [l EXCEPT !.result = result]
                             /\ pc' = "continue"
                        ELSE /\ loc' = [l EXCEPT !.result = EmptyGuard(result, loc),
                                                 !.cont = "not_needed"]
                             /\ pc' = AfterGeneration(loc)
            /\ resp' = IF pc' = "continue" THEN NoResp ELSE AfterGenerationResp(loc')

\* what the continuation does: its tokenizer call raises, its generate call
\* raises, or it decodes to a text of length len
ContOutcomes ==
    {[kind |-> k, len |-> 0, term |-> FALSE] : k \in {"tok_raise", "gen_raise", "ok"}}
    \cup [kind : {"ok"}, len : {ContLen}, term : BOOLEAN]

\* result + " " + cont_text, stripped
AppendContinuation(result, c) ==
    IF c.len = 0 THEN result
    ELSE LlmText(IF result.len = 0 THEN c.len ELSE result.len + 1 + c.len, c.term, FALSE)

\* the single continuation of a truncated generation, then the empty guard
ChatContinue(c) ==
    /\ pc = "continue"
    /\ UNCHANGED <<server, stream>>
    /\ calls' = IF c.kind = "tok_raise" THEN calls
                ELSE [calls EXCEPT !.generate = @ + 1, !.continuation = @ + 1]
    /\ LET result == IF c.kind = "ok" THEN AppendContinuation(loc.result, c) ELSE loc.result
       IN  loc' = [loc EXCEPT !.result = EmptyGuard(result, loc),
                              !.cont = IF c.kind # "ok" THEN c.kind
                                       ELSE IF c.len = 0 THEN "empty" ELSE "appended"]
    /\ resp' = AfterGenerationResp(loc')
    /\ pc' = AfterGeneration(loc)

\* _translate_with_llm_to_hindi(result) and the assignment of its result
ChatTranslateOut(o, hi) ==
    /\ pc = "translate_out"
    /\ UNCHANGED <<server, stream>>
    /\ calls' = [calls EXCEPT !.generate = IF o = "tok_raise" THEN @ ELSE @ + 1]
    /\ loc' = [loc EXCEPT !.result =
                 IF o = "text" THEN LlmText(TRUNC_MIN_LEN + 1, TRUE, hi) ELSE @]
    /\ resp' = GeneratedResp(loc'.result, loc', ModelMissing)
    /\ pc' = "done"

----------------------------------------------------------------------------
(* POST /llama-chat-stream *)

\* max_new_tokens of llama_chat_stream without a LLAMA_MAX_NEW_TOKENS override
StreamMaxNewTokens(device, speed, lang, prompt) ==
    LET base == PresetTokens(device, speed)
    IN  IF IsHindi(lang) \/ HasStory(StripLower(prompt))
        THEN (base * 5) \div 4 ELSE base

\* the {"done": true, ...} line of both generators
DoneLine(l, used) ==
    [done |-> TRUE, text |-> EmptyText, llm_used |-> used,
     source |-> IF l.rag_reliable THEN "rag" ELSE "general"]

\* a {"delta": ...} line
DeltaLine(text) == [done |-> FALSE, text |-> text, llm_used |-> FALSE, source |-> ""]

\* the handler body of llama_chat_stream, up to the Response it returns
StreamBegin(r, o, tok_ok) ==
    /\ pc = "idle"
    /\ calls' = IF r.prompt \in {NoPrompt, ""} \/ ~server.rag_ready
                THEN NoCalls ELSE [NoCalls EXCEPT !.search = 1]
    /\ stream' = NoStream
    /\ UNCHANGED server
    /\ LET seen == [LocIdle EXCEPT !.endpoint = "stream", !.prompt = r.prompt,
                                   !.fb_req = FallbackRequested(r.fallback)]
           parsed == [seen EXCEPT !.lang_hint = r.lang,
                                  !.age_group = NormAge(r.ageGroup)]
           l == [Retrieved(parsed, o) EXCEPT !.max_new_tokens =
                    StreamMaxNewTokens(server.device, "balanced", r.lang, r.prompt)]
       IN
       IF r.prompt \in {NoPrompt, ""}
       THEN /\ resp' = ErrorResp(400)
            /\ loc' = seen
            /\ pc' = "done"
       ELSE IF ~server.rag_ready /\ ~server.LLAMA_ALLOW_FALLBACK_WITHOUT_RAG
       THEN /\ resp' = ErrorResp(503)
            /\ loc' = parsed
            /\ pc' = "done"
       ELSE IF ~server.rag_ready
       THEN \* embedder is None: the AttributeError reaches the outer handler
            /\ resp' = ErrorResp(500)
            /\ loc' = parsed
            /\ pc' = "done"
       ELSE IF ~server.tokenizer \/ ~server.llm \/ ~server.streamer
       THEN /\ resp' = [NoResp EXCEPT !.status = 200]
            /\ loc' = l
            /\ pc' = "gen_fallback"
       ELSE IF ~tok_ok
       THEN /\ resp' = ErrorResp(500)
            /\ loc' = l
            /\ pc' = "done"
       ELSE /\ resp' = [NoResp EXCEPT !.status = 200]
            /\ loc' = l
            /\ pc' = "gen_stream"

\* gen_fallback up to its first yield
GenFallbackDelta ==
    /\ pc = "gen_fallback"
    /\ UNCHANGED <<server, calls, resp>>
    /\ LET text == ConversationalFallback(loc.prompt, loc.age_group, loc.lang_hint)
       IN  /\ loc' = [loc EXCEPT !.result = text]
           /\ stream' = [stream EXCEPT !.lines = Append(@, DeltaLine(text))]
    /\ pc' = "gen_fallback_meta"

\* gen_fallback from its first yield to its end
GenFallbackDone ==
    /\ pc = "gen_fallback_meta"
    /\ UNCHANGED <<server, calls, resp, loc>>
    /\ stream' = [stream EXCEPT !.lines = Append(@, DoneLine(loc, FALSE))]
    /\ pc' = "done"

\* gen_stream starts the thread that runs llm.generate with the streamer
GenStreamStart ==
    /\ pc = "gen_stream"
    /\ UNCHANGED <<server, resp, loc>>
    /\ calls' = [calls EXCEPT !.generate = @ + 1]
    /\ stream' = [stream EXCEPT !.thread = "running"]
    /\ pc' = "iterating"

\* run_generate: generate hands a decoded piece (possibly empty) to the streamer
ThreadPut(piece) ==
    /\ stream.thread = "running"
    /\ stream.pieces < MaxPieces
    /\ UNCHANGED <<server, resp, loc, calls, pc>>
    /\ stream' = [stream EXCEPT !.queue = Append(@, piece), !.pieces = @ + 1]

\* run_generate: generate returns; the streamer's end() queues the stop signal
ThreadEnd ==
    /\ stream.thread = "running"
    /\ UNCHANGED <<server, resp, loc, calls, pc>>
    /\ stream' = [stream EXCEPT !.queue = Append(@, "<stop>"), !.thread = "finished"]

\* run_generate: generate raises; the thread dies and end() is never called
ThreadRaise ==
    /\ stream.thread = "running"
    /\ UNCHANGED <<server, resp, loc, calls, pc>>
    /\ stream' = [stream EXCEPT !.thread = "raised"]

\* for piece in streamer: one piece taken from the queue
StreamPiece ==
    /\ pc = "iterating"
    /\ stream.queue # <<>>
    /\ Head(stream.queue) # "<stop>"
    /\ UNCHANGED <<server, resp, loc, calls, pc>>
    /\ stream' = [stream EXCEPT
                    !.queue = Tail(@),
                    !.lines = IF Head(stream.queue) = "" THEN @
                              ELSE Append(@, DeltaLine(LlmText(1, FALSE, FALSE)))]

\* the stop signal ends the loop: th.join and the final line
StreamDone ==
    /\ pc = "iterating"
    /\ stream.queue # <<>>
    /\ Head(stream.queue) = "<stop>"
    /\ UNCHANGED <<server, resp, loc, calls>>
    /\ stream' = [stream EXCEPT !.queue = Tail(@),
                                !.lines = Append(@, DoneLine(loc, TRUE))]
    /\ pc' = "done"

\* the response is sent; the server waits for the next request
Return ==
    /\ pc = "done"
    /\ UNCHANGED server
    /\ pc' = "idle"
    /\ loc' = LocIdle
    /\ calls' = NoCalls
    /\ resp' = NoResp
    /\ stream' = NoStream

\* outputs of the prompt translation: an English prompt
TranslatedPrompts == {"Hello there"}

\* llama_chat_stream reads neither the welcome flag nor the readability of
\* the top chunk
StreamRequests == {r \in Requests : ~r.welcome}

StreamRetrievalOutcomes == {o \in RetrievalOutcomes : ~o.readable}

(* One step of each handler, for every input and every outcome of its calls *)

LlamaChat == pc = "idle" /\ \E r \in Requests : ChatBegin(r)

TranslateToEnglish ==
    pc = "translate_in" /\
        \E o \in TranslateOutcomes, p \in TranslatedPrompts : ChatTranslateIn(o, p)

Retrieve == pc = "retrieve" /\ \E o \in RetrievalOutcomes : ChatRetrieve(o)

Generate == pc = "generate" /\ \E g \in GenOutcomes(loc.max_new_tokens) : ChatGenerate(g)

Continue == pc = "continue" /\ \E c \in ContOutcomes : ChatContinue(c)

TranslateToHindi ==
    pc = "translate_out" /\
        \E o \in TranslateOutcomes, hi \in BOOLEAN : ChatTranslateOut(o, hi)

LlamaChatStream ==
    pc = "idle" /\
        \E r \in StreamRequests, o \in StreamRetrievalOutcomes, tok_ok \in BOOLEAN :
            StreamBegin(r, o, tok_ok)

RunGenerate == \E piece \in {"", "tok"} : ThreadPut(piece)

Next ==
    \/ LlamaChat
    \/ TranslateToEnglish
    \/ ChatRoute
    \/ Retrieve
    \/ Generate
    \/ Continue
    \/ TranslateToHindi
    \/ LlamaChatStream
    \/ GenFallbackDelta
    \/ GenFallbackDone
    \/ GenStreamStart
    \/ RunGenerate
    \/ ThreadEnd
    \/ ThreadRaise
    \/ StreamPiece
    \/ StreamDone
    \/ Return

Spec == Init /\ [][Next]_vars

----------------------------------------------------------------------------
(* The scorer alone, on every distance of the grid *)

Distances == (-10 .. MaxDist) \cup {NoDist}

InitScore ==
    /\ server = [rag_ready |-> TRUE, tokenizer |-> FALSE, llm |-> FALSE,
                 streamer |-> TRUE, LLAMA_ALLOW_FALLBACK_WITHOUT_RAG |-> FALSE,
                 LLAMA_FORCE_FALLBACK |-> FALSE, device |-> "cpu"]
    /\ pc = "search"
    /\ loc \in {[LocIdle EXCEPT !.d0 = d] : d \in Distances}
    /\ calls = NoCalls
    /\ resp = NoResp
    /\ stream = NoStream

\* the scorer and the classification applied to the result of one search
ScoreDistance(n) ==
    /\ pc = "search"
    /\ (loc.d0 = NoDist) => (n = 0)
    /\ loc' = Retrieved(loc, [d0 |-> loc.d0, n |-> n, readable |-> FALSE])
    /\ pc' = "scored"
    /\ UNCHANGED <<server, calls, resp, stream>>

NextScore == \E n \in 0 .. TOP_K : ScoreDistance(n)

SpecScore == InitScore /\ [][NextScore]_vars

----------------------------------------------------------------------------
(* Speech delivery: /tts, /fast-tts and /generated_audio/<file>.  A       *)
(* synthesized file is its size in bytes, NoFile when the path names no    *)
(* file.  The variables hold the audio handlers' state here: server the    *)
(* installation (bundled sample, local TTS helper, configured language),   *)
(* loc the locals of the request, resp the HTTP response.                  *)

\* `size < 2000` of _safe_send_file and of the handlers
MIN_AUDIO_BYTES == 2000

\* not os.path.exists(out_path)
NoFile == -1

\* sizes a TTS backend leaves on disk
AudioSizes == {NoFile, 0, MIN_AUDIO_BYTES - 1, MIN_AUDIO_BYTES}

\* what one synthesis call does: it raises, or it returns a path whose file
\* has the given size
SynthOutcomes ==
    {[raised |-> TRUE, size |-> NoFile]} \cup [raised : {FALSE}, size : AudioSizes]

\* os.path.getsize(out) if out and os.path.exists(out) else 0
SizeOf(size) == IF size = NoFile THEN 0 ELSE size

NoAudioResp == [status |-> 0, kind |-> "none", size |-> NoFile]

\* jsonify({'error': ...}), code
AudioError(code) == [status |-> code, kind |-> "error", size |-> NoFile]

\* send_file of the bundled Greeting.wav
SampleResp == [status |-> 200, kind |-> "sample", size |-> NoFile]

\* send_file of a generated file
FileResp(size) == [status |-> 200, kind |-> "generated", size |-> size]

\* the JSON body of /llama-chat
JsonResp == [status |-> 200, kind |-> "json", size |-> NoFile]

\* _safe_send_file(out_path, ...) where the bundled sample exists or not
SafeSendFile(size, sample) ==
    IF size = NoFile THEN AudioError(500)
    ELSE IF size = 0 THEN (IF sample THEN SampleResp ELSE AudioError(500))
    ELSE IF size < MIN_AUDIO_BYTES THEN (IF sample THEN SampleResp ELSE AudioError(500))
    ELSE FileResp(size)

AudioIdle ==
    [endpoint |-> "none", lang |-> "", origin |-> "none", out_size |-> NoFile,
     audio_url |-> FALSE]

AudioServers ==
    [sample : BOOLEAN, EDGE_LOCAL_AVAILABLE : BOOLEAN, InputLanguageEn : BOOLEAN]

InitAudio ==
    /\ server \in AudioServers
    /\ pc = "idle"
    /\ loc = AudioIdle
    /\ calls = NoCalls
    /\ resp = NoAudioResp
    /\ stream = NoStream

\* a body of /tts or /fast-tts: a text or none, a language, a voice id that
\* starts with "piper" or not
AudioRequests == [text : BOOLEAN, lang : LangSet, piper_voice : BOOLEAN]

\* _is_english_hint(lang)
IsEnglishHint(lang) == IF lang # "" THEN lang = "en-IN" ELSE server.InputLanguageEn

\* where tts_endpoint goes when the fast path is not taken or has raised
AfterFastPath(lang) == IF IsHindi(lang) THEN "gtts" ELSE "engine"

\* tts_endpoint up to its first synthesis call
TtsBegin(r) ==
    /\ UNCHANGED <<server, calls, stream>>
    /\ LET l == [AudioIdle EXCEPT !.endpoint = "tts", !.lang = r.lang]
           use_fast == server.EDGE_LOCAL_AVAILABLE /\ IsEnglishHint(r.lang)
                       /\ ~r.piper_voice
       IN  IF ~r.text
           THEN /\ resp' = AudioError(400)
                /\ loc' = l
                /\ pc' = "done"
           ELSE /\ resp' = NoAudioResp
                /\ loc' = [l EXCEPT !.origin =
                              IF ~use_fast /\ IsHindi(r.lang) THEN "hindi" ELSE "none"]
                /\ pc' = IF use_fast THEN "local_basic" ELSE AfterFastPath(r.lang)

\* fast_tts up to its synthesis call
FastTtsBegin(r) ==
    /\ UNCHANGED <<server, calls, stream>>
    /\ loc' = [AudioIdle EXCEPT !.endpoint = "fast-tts", !.lang = r.lang]
    /\ IF ~server.EDGE_LOCAL_AVAILABLE
       THEN resp' = AudioError(503) /\ pc' = "done"
       ELSE IF ~r.text
       THEN resp' = AudioError(400) /\ pc' = "done"
       ELSE resp' = NoAudioResp /\ pc' = "local_basic"

\* tts_local_basic(...) and the size test that follows it
LocalBasic(o) ==
    /\ UNCHANGED <<server, calls, stream>>
    /\ IF o.raised
       THEN IF loc.endpoint = "fast-tts"
            THEN /\ resp' = AudioError(500)
                 /\ loc' = loc
                 /\ pc' = "done"
            ELSE /\ resp' = resp
                 /\ loc' = [loc EXCEPT !.origin =
                               IF IsHindi(loc.lang) THEN "hindi" ELSE "none"]
                 /\ pc' = AfterFastPath(loc.lang)
       ELSE IF SizeOf(o.size) < MIN_AUDIO_BYTES
       THEN /\ resp' = resp
            /\ loc' = [loc EXCEPT !.origin = "small", !.out_size = o.size]
            /\ pc' = "gtts"
       ELSE /\ resp' = SafeSendFile(o.size, server.sample)
            /\ loc' = [loc EXCEPT !.out_size = o.size]
            /\ pc' = "done"

\* the gTTS synthesis (of the small-file fallback or of the Hindi path)
Gtts(o) ==
    /\ UNCHANGED <<server, calls, stream>>
    /\ IF o.raised
       THEN /\ resp' = resp
            /\ loc' = loc
            /\ pc' = "edge"
       ELSE /\ resp' = SafeSendFile(o.size, server.sample)
            /\ loc' = [loc EXCEPT !.out_size = o.size]
            /\ pc' = "done"

\* the edge-tts synthesis tried after gTTS has raised
EdgeTts(o) ==
    /\ UNCHANGED <<server, calls, stream>>
    /\ IF ~o.raised
       THEN /\ resp' = SafeSendFile(o.size, server.sample)
            /\ loc' = [loc EXCEPT !.out_size = o.size]
            /\ pc' = "done"
       ELSE IF loc.origin = "small"
       THEN \* the original local-basic output is returned
            /\ resp' = SafeSendFile(loc.out_size, server.sample)
            /\ loc' = loc
            /\ pc' = "done"
       ELSE IF server.sample
       THEN /\ resp' = SampleResp
            /\ loc' = loc
            /\ pc' = "done"
       ELSE /\ resp' = resp
            /\ loc' = loc
            /\ pc' = "engine"

\* generate_tts_file(text, voice_id) at the end of tts_endpoint
EngineTts(o) ==
    /\ UNCHANGED <<server, calls, stream>>
    /\ loc' = [loc EXCEPT !.out_size = o.size]
    /\ resp' = IF o.raised THEN AudioError(500)
               ELSE SafeSendFile(o.size, server.sample)
    /\ pc' = "done"

\* the speech of a /llama-chat answer: the file is synthesized and its name
\* returned as audio_url
ChatSpeech(o) ==
    /\ UNCHANGED <<server, calls, stream>>
    /\ resp' = JsonResp
    /\ loc' = [AudioIdle EXCEPT !.endpoint = "chat", !.out_size = o.size,
                                !.audio_url = ~o.raised]
    /\ pc' = IF o.raised THEN "done" ELSE "audio_url"

\* get_generated_audio(filename) for the audio_url of the last answer
GetGeneratedAudio ==
    /\ pc = "audio_url"
    /\ UNCHANGED <<server, calls, stream>>
    /\ loc' = [loc EXCEPT !.endpoint = "generated_audio"]
    /\ resp' = IF loc.out_size = NoFile THEN AudioError(404)
               ELSE FileResp(loc.out_size)
    /\ pc' = "done"

\* the response has been sent
ReturnAudio ==
    /\ pc = "done"
    /\ UNCHANGED <<server, calls, stream>>
    /\ loc' = AudioIdle
    /\ resp' = NoAudioResp
    /\ pc' = "idle"

TtsEndpoint == pc = "idle" /\ \E r \in AudioRequests : TtsBegin(r)

FastTts == pc = "idle" /\ \E r \in AudioRequests : FastTtsBegin(r)

LlamaChatSpeech == pc = "idle" /\ \E o \in SynthOutcomes : ChatSpeech(o)

TtsLocalBasic == pc = "local_basic" /\ \E o \in SynthOutcomes : LocalBasic(o)

GttsFallback == pc = "gtts" /\ \E o \in SynthOutcomes : Gtts(o)

EdgeFallback == pc = "edge" /\ \E o \in SynthOutcomes : EdgeTts(o)

GenerateTtsFile == pc = "engine" /\ \E o \in SynthOutcomes : EngineTts(o)

NextAudio ==
    \/ TtsEndpoint
    \/ FastTts
    \/ LlamaChatSpeech
    \/ TtsLocalBasic
    \/ GttsFallback
    \/ EdgeFallback
    \/ GenerateTtsFile
    \/ GetGeneratedAudio
    \/ ReturnAudio

SpecAudio == InitAudio /\ [][NextAudio]_vars

----------------------------------------------------------------------------
(* Retrieval index (src/backend/rag_utils.py): hash_embed, SimpleIndex and *)
(* the IndexFlatL2 index that build_index uses when faiss is installed.    *)
(* A text is a sequence of tokens and blanks; an embedding is the record   *)
(* [v, n2, div0]: the count vector v, the square n2 of its norm (the       *)
(* vector returned is v / sqrt(n2), or v itself when n2 = 0), and whether  *)
(* a division by a zero norm took place.  Similarities and distances are   *)
(* integers in hundredths, like the distances of the scorer.               *)

\* dimension of the embeddings (EMBED_DIM of the code is 384)
EMBED_DIM == 2

\* largest corpus
MaxChunks == 2

\* largest number of rows of a query matrix
MaxRows == 1

\* largest k
MaxK == 3

\* text.split(): the tokens between blanks
Split(text) == SelectSeq(text, LAMBDA t : t # " ")

\* int(sha1(token).hexdigest(), 16), kept abstract as one number per token
TokenHash(token) == IF token = "a" THEN 0 ELSE 1

RECURSIVE SumSquares(_, _)
SumSquares(v, i) == IF i < 0 THEN 0 ELSE v[i] * v[i] + SumSquares(v, i - 1)

RECURSIVE Dot(_, _, _)
Dot(u, v, i) == IF i < 0 THEN 0 ELSE u[i] * v[i] + Dot(u, v, i - 1)

\* vec[idx] += 1.0 for every token
CountVector(text, dim) ==
    [idx \in 0 .. dim - 1 |->
        Cardinality({i \in 1 .. Len(Split(text)) :
                        TokenHash(Split(text)[i]) % dim = idx})]

\* a hash_embed that normalizes without looking at the norm
HashEmbedMutNoGuard(text, dim) ==
    LET vec == CountVector(text, dim)
        n2 == SumSquares(vec, dim - 1)
    IN  [v |-> vec, n2 |-> n2, div0 |-> n2 = 0]

\* hash_embed(text, dim)
HashEmbed(text, dim) ==
    LET vec == CountVector(text, dim)
        n2 == SumSquares(vec, dim - 1)
    IN  [v |-> vec, n2 |-> n2, div0 |-> FALSE]

\* the squared norm of the vector an embedding record stands for
NormSquared(e) == IF e.n2 > 0 THEN 100 ELSE 0

\* the dot product of the vectors two embedding records stand for, in
\* hundredths (rounded down): 100 * (u.v) / sqrt(n2(u) * n2(v))
Sim100(q, e, dim) ==
    IF q.n2 = 0 \/ e.n2 = 0 THEN 0
    ELSE LET d == Dot(q.v, e.v, dim - 1)
             n == q.n2 * e.n2
         IN  CHOOSE c \in 0 .. 100 :
                 /\ c * c * n <= 10000 * d * d
                 /\ (c + 1) * (c + 1) * n > 10000 * d * d

\* the permutations of 1 .. n
Orders(n) ==
    {p \in [1 .. n -> 1 .. n] : \A i, j \in 1 .. n : i # j => p[i] # p[j]}

\* the position of x in the permutation p
PositionIn(p, x) == CHOOSE i \in DOMAIN p : p[i] = x

\* the order of 1 .. n by ascending key; entries with equal keys come in
\* the order that the permutation pref gives them (a sort that is not
\* stable may leave them in any order)
ArgSort(key, n, pref) ==
    CHOOSE p \in Orders(n) :
        \A i, j \in 1 .. n : i < j =>
            \/ key[p[i]] < key[p[j]]
            \/ (key[p[i]] = key[p[j]] /\ PositionIn(pref, p[i]) < PositionIn(pref, p[j]))

\* the result of a search: rows x cols arrays D and I (0-based indices into
\* the corpus), and whether a division by zero took place
SearchResult(rows, cols, D, I, div0) ==
    [rows |-> rows, cols |-> cols, D |-> D, I |-> I, div0 |-> div0]

\* a search that pads the result of an empty index to k columns
SimpleIndexSearchMutPad(embeddings, none, Q, k, pref, dim) ==
    SearchResult(Len(Q), k, [r \in 1 .. Len(Q) |-> [c \in 1 .. k |-> 0]],
                 [r \in 1 .. Len(Q) |-> [c \in 1 .. k |-> -1]], FALSE)

\* a row that sorts the similarities instead of their negation
SimpleRowMutAscending(q, embeddings, cols, pref, dim) ==
    LET n == Len(embeddings)
        sims == [e \in 1 .. n |-> Sim100(q, embeddings[e], dim)]
        order == ArgSort(sims, n, pref)
    IN  [D |-> [c \in 1 .. cols |-> 100 - sims[order[c]]],
         I |-> [c \in 1 .. cols |-> order[c] - 1],
         div0 |-> FALSE]

\* one row of SimpleIndex.search: norms[norms == 0] = 1.0; Q = Q / norms;
\* sims = Q @ embeddings.T; order = argsort(-sims); D = 1 - top_sim
SimpleRow(q, embeddings, cols, pref, dim) ==
    LET n == Len(embeddings)
        norm == NormSquared(q)
        divisor == IF norm = 0 THEN 100 ELSE norm
        sims == [e \in 1 .. n |-> Sim100(q, embeddings[e], dim)]
        order == ArgSort([e \in 1 .. n |-> 0 - sims[e]], n, pref)
    IN  [D |-> [c \in 1 .. cols |-> 100 - sims[order[c]]],
         I |-> [c \in 1 .. cols |-> order[c] - 1],
         div0 |-> divisor = 0]

\* SimpleIndex.search(query_mat, k) on SimpleIndex(embeddings)
SimpleIndexSearch(embeddings, none, Q, k, pref, dim) ==
    IF none \/ Len(embeddings) = 0
    THEN SearchResult(Len(Q), 0, [r \in 1 .. Len(Q) |-> <<>>],
                      [r \in 1 .. Len(Q) |-> <<>>], FALSE)
    ELSE LET n == Len(embeddings)
             cols == IF k < n THEN k ELSE n
             rows == [r \in 1 .. Len(Q) |-> SimpleRow(Q[r], embeddings, cols, pref, dim)]
         IN  SearchResult(Len(Q), cols, [r \in 1 .. Len(Q) |-> rows[r].D],
                          [r \in 1 .. Len(Q) |-> rows[r].I],
                          \E r \in 1 .. Len(Q) : rows[r].div0)

\* what IndexFlatL2 puts in the columns beyond the size of the index: label
\* -1 and the largest float, which lies beyond every distance of the grid
FaissPad == [D |-> 2 * MaxDist, I |-> -1]

\* one row of IndexFlatL2.search: squared L2 distances, ascending, padded
\* to k columns
FaissRow(q, embeddings, k, pref, dim) ==
    LET n == Len(embeddings)
        dist == [e \in 1 .. n |->
                    NormSquared(q) + NormSquared(embeddings[e])
                    - 2 * Sim100(q, embeddings[e], dim)]
        order == ArgSort(dist, n, pref)
    IN  [D |-> [c \in 1 .. k |-> IF c <= n THEN dist[order[c]] ELSE FaissPad.D],
         I |-> [c \in 1 .. k |-> IF c <= n THEN order[c] - 1 ELSE FaissPad.I]]

\* IndexFlatL2.search(query_mat, k) on the index build_index fills with the
\* embeddings
FaissSearch(embeddings, Q, k, pref, dim) ==
    LET rows == [r \in 1 .. Len(Q) |-> FaissRow(Q[r], embeddings, k, pref, dim)]
    IN  SearchResult(Len(Q), k, [r \in 1 .. Len(Q) |-> rows[r].D],
                     [r \in 1 .. Len(Q) |-> rows[r].I], FALSE)

\* texts of the chunks (chunk_text joins words, so a chunk has a token)
ChunkTexts == {<<"a">>, <<"b">>, <<"a", " ", "b">>}

\* texts of the queries: empty, blank, one token, two tokens
QueryTexts == {<<>>, <<" ">>, <<"a">>, <<"b", " ", "a">>}

\* the sequences over S of length at most n
SeqsUpTo(S, n) == UNION {[1 .. m -> S] : m \in 0 .. n}

NoSearch == SearchResult(0, 0, <<>>, <<>>, FALSE)

IndexIdle ==
    [texts |-> <<>>, Q |-> <<>>, k |-> 0, simple |-> NoSearch, faiss |-> NoSearch,
     raised |-> FALSE, retrieved |-> 0, d0 |-> NoDist, rag_score |-> NoScore,
     rag_reliable |-> FALSE,
     with_faiss |-> [retrieved |-> 0, d0 |-> NoDist, rag_score |-> NoScore,
                     rag_reliable |-> FALSE]]

\* build_index(chunks): the embeddings matrix of the corpus
BuildIndex(chunks_list, dim) == [i \in 1 .. Len(chunks_list) |-> HashEmbed(chunks_list[i], dim)]

\* the module state of rag_utils after import: the corpus, its embeddings
\* (None only for an index made without a matrix), and the order in which
\* the sorts leave equal keys
InitIndex ==
    /\ \E chunks_list \in SeqsUpTo(ChunkTexts, MaxChunks), none \in BOOLEAN :
          /\ none => chunks_list = <<>>
          /\ \E pref \in Orders(Len(chunks_list)) :
                server = [chunks |-> chunks_list,
                          embeddings |-> BuildIndex(chunks_list, EMBED_DIM),
                          none |-> none, pref |-> pref]
    /\ pc = "idle"
    /\ loc = IndexIdle
    /\ calls = NoCalls
    /\ resp = NoResp
    /\ stream = NoStream

\* embedder.encode(texts) and the choice of k
Encode(texts, k) ==
    /\ pc = "idle"
    /\ UNCHANGED <<server, calls, resp, stream>>
    /\ loc' = [IndexIdle EXCEPT !.texts = texts, !.k = k,
                 !.Q = [r \in 1 .. Len(texts) |-> HashEmbed(texts[r], EMBED_DIM)]]
    /\ pc' = "encoded"

\* index.search(query_arr, k), by either index
IndexSearch ==
    /\ pc = "encoded"
    /\ UNCHANGED <<server, calls, resp, stream>>
    /\ loc' = [loc EXCEPT
                 !.simple = SimpleIndexSearch(server.embeddings, server.none, loc.Q,
                                              loc.k, server.pref, EMBED_DIM),
                 !.faiss = FaissSearch(server.embeddings, loc.Q, loc.k,
                                       server.pref, EMBED_DIM)]
    /\ pc' = "searched"

\* the number of indices of a row that name a chunk
RetrievedCount(row, n) == Cardinality({c \in DOMAIN row : 0 <= row[c] /\ row[c] < n})

\* retrieved_chunks, rag_score and rag_reliable of llama_chat for the result
\* of a search with at least one row
AppClassify(res, nchunks) ==
    LET n == RetrievedCount(res.I[1], nchunks)
        d0 == IF res.cols > 0 THEN res.D[1][1] ELSE NoDist
        score == RagScore(d0)
    IN  [retrieved |-> n, d0 |-> d0, rag_score |-> score,
         rag_reliable |-> RagReliable(n, score)]

\* what llama_chat makes of the result of the search, with the SimpleIndex
\* and with the IndexFlatL2 index: I[0] of a matrix without rows raises
AppRetrieve ==
    /\ pc = "searched"
    /\ UNCHANGED <<server, calls, resp, stream>>
    /\ IF loc.simple.rows = 0
       THEN loc' = [loc EXCEPT !.raised = TRUE]
       ELSE LET s == AppClassify(loc.simple, Len(server.chunks))
            IN  loc' = [loc EXCEPT !.retrieved = s.retrieved, !.d0 = s.d0,
                                   !.rag_score = s.rag_score,
                                   !.rag_reliable = s.rag_reliable,
                                   !.with_faiss = AppClassify(loc.faiss, Len(server.chunks))]
    /\ pc' = "retrieved"

NextIndex ==
    \/ \E texts \in SeqsUpTo(QueryTexts, MaxRows), k \in 1 .. MaxK : Encode(texts, k)
    \/ IndexSearch
    \/ AppRetrieve

SpecIndex == InitIndex /\ [][NextIndex]_vars

----------------------------------------------------------------------------
(* Budgets of the two generation calls of llama_chat (app.py:1599-1749):   *)
(* max_new_tokens and max_time of the first call and of the continuation,  *)
(* for every preset, age group, language, device and override.  Times are  *)
(* in hundredths of a second.                                              *)

\* an environment variable that is not set
NoEnv == -1

\* values of LLAMA_MAX_NEW_TOKENS
EnvTokens == {NoEnv, 16, 200, 256, 512, 600}

\* values of LLAMA_MAX_TIME, in hundredths of a second
EnvTimes == {NoEnv, 0, 500, 3000}

SpeedSet == {"fast", "balanced", "quality"}

DeviceSet == {"cpu", "cuda"}

\* age_group after normalisation
BudgetAges == {"kid", "teen", "adult"}

BudgetPrompts == {"what is namami gange", "tell me a story about the ganga river"}

\* an accelerated device with the budgets of the CPU
DefaultMaxTimeMutCpu(device, speed) ==
    CASE speed = "fast" -> 400 [] speed = "balanced" -> 600 [] OTHER -> 800

\* default_max_time
DefaultMaxTime(device, speed) ==
    IF device = "cpu"
    THEN CASE speed = "fast" -> 400 [] speed = "balanced" -> 600 [] OTHER -> 800
    ELSE CASE speed = "fast" -> 800 [] speed = "balanced" -> 1400 [] OTHER -> 2200

\* max_new_tokens of llama_chat: the override or the preset, the boost for
\* Hindi and stories, then the bounds of the age group
BudgetTokens(env, device, speed, age, lang, prompt) ==
    LET base == IF env = NoEnv THEN PresetTokens(device, speed) ELSE env
        boosted == IF IsHindi(lang) \/ HasStory(StripLower(prompt))
                   THEN (base * 5) \div 4 ELSE base
    IN  IF age = "kid"
        THEN Min2(Max2(boosted, KidTokens(device, speed)), KidTokens(device, "quality"))
        ELSE IF age = "teen" THEN Min2(boosted, TeenTokens(device, speed))
        ELSE boosted

\* max_time = float(os.environ.get('LLAMA_MAX_TIME', str(default_max_time)))
BudgetTime(env, device, speed) == IF env = NoEnv THEN DefaultMaxTime(device, speed) ELSE env

\* extra_budget = min(max(max_new_tokens * 2, 160), 512)
ExtraBudget(max_new_tokens) == Min2(Max2(max_new_tokens * 2, 160), 512)

\* float(max_time) * 1.5
ExtraTime(max_time) == (max_time * 3) \div 2

BudgetIdle ==
    [speed |-> "", age_group |-> "", lang |-> "", prompt |-> "",
     max_new_tokens |-> 0, max_time |-> 0, has_time |-> FALSE,
     extra_budget |-> 0, extra_time |-> 0, extra_has_time |-> FALSE]

InitBudget ==
    /\ \E device \in DeviceSet, t \in EnvTokens, m \in EnvTimes :
          server = [device |-> device, env_tokens |-> t, env_time |-> m]
    /\ pc = "idle"
    /\ loc = BudgetIdle
    /\ calls = NoCalls
    /\ resp = NoResp
    /\ stream = NoStream

\* generate_kwargs of the first call; max_time is passed only when positive
FirstCall(speed, age, lang, prompt) ==
    /\ pc = "idle"
    /\ UNCHANGED <<server, resp, stream>>
    /\ LET max_time == BudgetTime(server.env_time, server.device, speed)
       IN  loc' = [BudgetIdle EXCEPT
                     !.speed = speed, !.age_group = age, !.lang = lang, !.prompt = prompt,
                     !.max_new_tokens = BudgetTokens(server.env_tokens, server.device,
                                                     speed, age, lang, prompt),
                     !.max_time = max_time, !.has_time = max_time > 0]
    /\ calls' = [calls EXCEPT !.generate = 1]
    /\ pc' = "generated"

\* extra_kwargs of the continuation: a copy of generate_kwargs with the
\* extra budget, and max_time * 1.5 when max_time is not zero
ContinuationCall ==
    /\ pc = "generated"
    /\ UNCHANGED <<server, resp, stream>>
    /\ loc' = [loc EXCEPT
                 !.extra_budget = ExtraBudget(loc.max_new_tokens),
                 !.extra_time = IF loc.max_time # 0 THEN ExtraTime(loc.max_time)
                                ELSE loc.max_time,
                 !.extra_has_time = IF loc.max_time # 0 THEN TRUE ELSE loc.has_time]
    /\ calls' = [calls EXCEPT !.continuation = 1]
    /\ pc' = "continued"

NextBudget ==
    \/ \E speed \in SpeedSet, age \in BudgetAges, lang \in LangSet, prompt \in BudgetPrompts :
          FirstCall(speed, age, lang, prompt)
    \/ ContinuationCall

SpecBudget == InitBudget /\ [][NextBudget]_vars

----------------------------------------------------------------------------
(* Cache of the Piper voices (app.py:95-104, 500-516): get_piper_voices is *)
(* called by request threads and by the tts-preload thread without a lock. *)
(* Each read or write of _PIPER_CACHE is one step.  The clock counts       *)
(* hundreds of seconds.  A voice list is the record [now, start, empty]:   *)
(* the timestamp of the call that scanned it, the time its scan started    *)
(* and whether it holds no voice.                                          *)

\* time to live of the cached list: 300 seconds
PIPER_TTL == 3

\* last instant of the clock
MaxClock == 7

\* time.time() when the process starts: later than the TTL after 0.0
StartClock == PIPER_TTL + 1

Threads == {"request-1", "tts-preload"}

\* _PIPER_CACHE = {"time": 0.0, "list": []}
EmptyCache == [time |-> 0, list |-> [now |-> 0, start |-> 0, empty |-> TRUE]]

PiperIdle ==
    [now |-> 0, force_refresh |-> FALSE, voices |-> EmptyCache.list,
     result |-> EmptyCache.list, cached |-> FALSE]

InitPiper ==
    /\ server = [cache |-> EmptyCache, clock |-> StartClock]
    /\ pc = [t \in Threads |-> "idle"]
    /\ loc = [t \in Threads |-> PiperIdle]
    /\ calls = NoCalls
    /\ resp = NoResp
    /\ stream = NoStream

\* time passes
Tick ==
    /\ server.clock < MaxClock
    /\ server' = [server EXCEPT !.clock = @ + 1]
    /\ UNCHANGED <<pc, loc, calls, resp, stream>>

\* now = time.time(); _preload_tts_sync calls with force_refresh=True, once
CallVoices(t, force) ==
    /\ pc[t] = "idle"
    /\ t = "tts-preload" => force
    /\ loc' = [loc EXCEPT ![t] = [PiperIdle EXCEPT !.now = server.clock,
                                                   !.force_refresh = force]]
    /\ pc' = [pc EXCEPT ![t] = IF force THEN "scan" ELSE "check_list"]
    /\ UNCHANGED <<server, calls, resp, stream>>

\* not force_refresh and _PIPER_CACHE["list"]
CheckList(t) ==
    /\ pc[t] = "check_list"
    /\ pc' = [pc EXCEPT ![t] = IF server.cache.list.empty THEN "scan" ELSE "check_time"]
    /\ UNCHANGED <<server, loc, calls, resp, stream>>

\* (now - _PIPER_CACHE["time"]) < 300
CheckTime(t) ==
    /\ pc[t] = "check_time"
    /\ pc' = [pc EXCEPT ![t] = IF loc[t].now - server.cache.time < PIPER_TTL
                               THEN "return_cached" ELSE "scan"]
    /\ UNCHANGED <<server, loc, calls, resp, stream>>

\* return _PIPER_CACHE["list"]
ReturnCached(t) ==
    /\ pc[t] = "return_cached"
    /\ loc' = [loc EXCEPT ![t].result = server.cache.list, ![t].cached = TRUE]
    /\ pc' = [pc EXCEPT ![t] = "returned"]
    /\ UNCHANGED <<server, calls, resp, stream>>

\* voices = list_piper_voices(PIPER_VOICES_DIR)
Scan(t, empty) ==
    /\ pc[t] = "scan"
    /\ loc' = [loc EXCEPT ![t].voices =
                 [now |-> loc[t].now, start |-> server.clock, empty |-> empty]]
    /\ pc' = [pc EXCEPT ![t] = "store_list"]
    /\ UNCHANGED <<server, calls, resp, stream>>

\* _PIPER_CACHE["list"] = voices
StoreList(t) ==
    /\ pc[t] = "store_list"
    /\ server' = [server EXCEPT !.cache.list = loc[t].voices]
    /\ pc' = [pc EXCEPT ![t] = "store_time"]
    /\ UNCHANGED <<loc, calls, resp, stream>>

\* _PIPER_CACHE["time"] = now; return voices
StoreTime(t) ==
    /\ pc[t] = "store_time"
    /\ server' = [server EXCEPT !.cache.time = loc[t].now]
    /\ loc' = [loc EXCEPT ![t].result = loc[t].voices]
    /\ pc' = [pc EXCEPT ![t] = "returned"]
    /\ UNCHANGED <<calls, resp, stream>>

\* the caller goes on; the preload thread ends
Returned(t) ==
    /\ pc[t] = "returned"
    /\ loc' = [loc EXCEPT ![t] = PiperIdle]
    /\ pc' = [pc EXCEPT ![t] = IF t = "tts-preload" THEN "done" ELSE "idle"]
    /\ UNCHANGED <<server, calls, resp, stream>>

NextPiper ==
    \/ Tick
    \/ \E t \in Threads, force \in BOOLEAN : CallVoices(t, force)
    \/ \E t \in Threads : CheckList(t)
    \/ \E t \in Threads : CheckTime(t)
    \/ \E t \in Threads : ReturnCached(t)
    \/ \E t \in Threads, empty \in BOOLEAN : Scan(t, empty)
    \/ \E t \in Threads : StoreList(t)
    \/ \E t \in Threads : StoreTime(t)
    \/ \E t \in Threads : Returned(t)

SpecPiper == InitPiper /\ [][NextPiper]_vars

----------------------------------------------------------------------------
(* Persisted artifacts of rag_utils (rag_utils.py:156-278): the chunk      *)
(* file, the embedding file and the index file on disk, across runs of the *)
(* process.  A corpus is the record [id, n]: which text it was chunked     *)
(* from and how many chunks it has; a file is [st, corpus] with st absent,  *)
(* corrupt or ok.  server is the disk and the installation, loc the        *)
(* module globals chunks, embeddings and index of the running process.     *)

\* the corpora the PDF directories can hold: none, and three texts
Corpora ==
    {[id |-> "none", n |-> 0], [id |-> "a", n |-> 2], [id |-> "b", n |-> 2],
     [id |-> "c", n |-> 3]}

NoCorpus == [id |-> "none", n |-> 0]

AbsentFile == [st |-> "absent", corpus |-> NoCorpus]

\* a write that succeeds, fails before the file is opened, or fails after
\* the file was truncated
WriteOutcomes == {"ok", "unchanged", "corrupt"}

\* the file after one silent write attempt
WriteFile(file, corpus, outcome) ==
    IF outcome = "ok" THEN [st |-> "ok", corpus |-> corpus]
    ELSE IF outcome = "corrupt" THEN [st |-> "corrupt", corpus |-> NoCorpus]
    ELSE file

\* _save_artifacts(chunks_list, embeddings_mat, faiss_index)
SaveArtifacts(disk, corpus, faiss_ok, wc, we, wf) ==
    [chunks |-> WriteFile(disk.chunks, corpus, wc),
     emb |-> WriteFile(disk.emb, corpus, we),
     faiss |-> IF faiss_ok THEN WriteFile(disk.faiss, corpus, wf) ELSE disk.faiss]

\* a loaded value: None unless the file exists and reads
Loaded(file) == [none |-> file.st # "ok", corpus |-> file.corpus]

\* _load_artifacts()
LoadArtifacts(disk, faiss_ok) ==
    [chunks |-> Loaded(disk.chunks),
     emb |-> Loaded(disk.emb),
     faiss |-> IF faiss_ok THEN Loaded(disk.faiss)
               ELSE [none |-> TRUE, corpus |-> NoCorpus]]

NotLoaded ==
    [chunks |-> NoCorpus, embeddings |-> NoCorpus, index |-> NoCorpus, built |-> FALSE,
     idx |-> -1, raised |-> FALSE, skipped |-> FALSE]

InitArtifacts ==
    /\ \E pdfs \in Corpora, faiss_ok \in BOOLEAN :
          server = [disk |-> [chunks |-> AbsentFile, emb |-> AbsentFile,
                               faiss |-> AbsentFile],
                    pdfs |-> pdfs, faiss_ok |-> faiss_ok]
    /\ pc = "stopped"
    /\ loc = NotLoaded
    /\ calls = NoCalls
    /\ resp = NoResp
    /\ stream = NoStream

\* the PDF directories get another content while the process is down
ChangePdfs(pdfs) ==
    /\ pc = "stopped"
    /\ pdfs # server.pdfs
    /\ server' = [server EXCEPT !.pdfs = pdfs]
    /\ UNCHANGED <<pc, loc, calls, resp, stream>>

\* import of rag_utils: load the artifacts, or build from the PDFs and save
ImportRagUtils(wc, we, wf) ==
    /\ pc = "stopped"
    /\ LET l == LoadArtifacts(server.disk, server.faiss_ok)
       IN  IF l.chunks.none \/ l.emb.none \/ (server.faiss_ok /\ l.faiss.none)
           THEN /\ loc' = [NotLoaded EXCEPT !.chunks = server.pdfs,
                                            !.embeddings = server.pdfs,
                                            !.index = server.pdfs, !.built = TRUE]
                /\ server' = [server EXCEPT !.disk =
                                 SaveArtifacts(server.disk, server.pdfs, server.faiss_ok,
                                               wc, we, wf)]
           ELSE /\ loc' = [NotLoaded EXCEPT !.chunks = l.chunks.corpus,
                                            !.embeddings = l.emb.corpus,
                                            !.index = IF server.faiss_ok
                                                      THEN l.faiss.corpus
                                                      ELSE l.emb.corpus]
                /\ server' = server
    /\ pc' = "loaded"
    /\ UNCHANGED <<calls, resp, stream>>

\* rag_utils.query(text) when row idx of the index is among the nearest:
\* with faiss an index beyond the chunks is skipped, without it chunks[idx]
\* raises
QueryRow(idx) ==
    /\ pc \in {"loaded", "queried"}
    /\ idx < (IF server.faiss_ok THEN loc.index.n ELSE loc.embeddings.n)
    /\ loc' = [loc EXCEPT !.idx = idx,
                 !.skipped = server.faiss_ok /\ idx >= loc.chunks.n,
                 !.raised = ~server.faiss_ok /\ idx >= loc.chunks.n]
    /\ pc' = "queried"
    /\ UNCHANGED <<server, calls, resp, stream>>

\* the process ends
StopProcess ==
    /\ pc \in {"loaded", "queried"}
    /\ loc' = NotLoaded
    /\ pc' = "stopped"
    /\ UNCHANGED <<server, calls, resp, stream>>

NextArtifacts ==
    \/ \E pdfs \in Corpora : ChangePdfs(pdfs)
    \/ \E wc, we, wf \in WriteOutcomes : ImportRagUtils(wc, we, wf)
    \/ \E idx \in 0 .. 2 : QueryRow(idx)
    \/ StopProcess

SpecArtifacts == InitArtifacts /\ [][NextArtifacts]_vars

----------------------------------------------------------------------------
(* Stored chats (chat_routes.py:30-71, db.py:30-119): POST /chats/save and *)
(* DELETE /chats/<id> on the in-memory collection, served by concurrent    *)
(* request threads.  A stored chat is [id, user_email, title, created,     *)
(* updated]; `updated` also stands for the messages saved with it.  Each   *)
(* call of the collection by save_chat is one step, replace_one two: its   *)
(* scan and its write.                                                     *)

\* a document without the key `created`
NoCreated == 0

\* most calls of utc_now_iso in one behaviour
MaxSaves == 3

\* most documents in the collection
MaxDocs == 3

SPECIAL_WELCOME_TITLE == "Welcome Chat"

ChatThreads == {"t1", "t2"}

ChatUsers == {"u1@example.org"}

\* normalize_chat_id(data.get('id')); "" is a body without id
ChatIds == {"", "1", "2"}

\* (data.get('title') or '').strip()
ChatTitles == {"", SPECIAL_WELCOME_TITLE, "Notes"}

\* _InMemoryCollection._match(doc, filt) for the filter {user_email, id}
MatchId(d, email, id) == d.user_email = email /\ d.id = id

\* _InMemoryCollection._match(doc, filt) for the filter {user_email, title}
MatchTitle(d, email, title) == d.user_email = email /\ d.title = title

\* the index of the first document of the list that is in the set of
\* matching indices, 0 when there is none
FirstMatch(matching) ==
    IF matching = {} THEN 0
    ELSE CHOOSE i \in matching : \A j \in matching : i <= j

\* the first document find_one, replace_one and delete_one reach for the
\* filter {user_email, id}
FirstById(docs, email, id) ==
    FirstMatch({i \in DOMAIN docs : MatchId(docs[i], email, id)})

\* the first document find_one reaches for the filter {user_email, title}
FirstByTitle(docs, email, title) ==
    FirstMatch({i \in DOMAIN docs : MatchTitle(docs[i], email, title)})

\* the sequence without its i-th element
RemoveAt(docs, i) == [j \in 1 .. Len(docs) - 1 |-> IF j < i THEN docs[j] ELSE docs[j + 1]]

NoDoc == [id |-> "", user_email |-> "", title |-> "", created |-> NoCreated, updated |-> 0]

ChatIdle == [doc |-> NoDoc, i |-> 0, status |-> 0]

InitChats ==
    /\ server = [docs |-> <<>>, now |-> 0]
    /\ pc = [t \in ChatThreads |-> "idle"]
    /\ loc = [t \in ChatThreads |-> ChatIdle]
    /\ calls = NoCalls
    /\ resp = NoResp
    /\ stream = NoStream

\* save_chat up to the test for a second Welcome Chat
SaveBegin(t, email, id, title) ==
    /\ pc[t] = "idle"
    /\ IF id = "" \/ title = ""
       THEN /\ loc' = [loc EXCEPT ![t] = [ChatIdle EXCEPT !.status = 400]]
            /\ pc' = pc
       ELSE LET doc == [NoDoc EXCEPT !.id = id, !.user_email = email, !.title = title]
                w == FirstByTitle(server.docs, email, SPECIAL_WELCOME_TITLE)
            IN  IF title = SPECIAL_WELCOME_TITLE /\ w # 0 /\ server.docs[w].id # id
                THEN /\ loc' = [loc EXCEPT ![t] = [ChatIdle EXCEPT !.status = 409]]
                     /\ pc' = pc
                ELSE /\ loc' = [loc EXCEPT ![t] = [ChatIdle EXCEPT !.doc = doc]]
                     /\ pc' = [pc EXCEPT ![t] = "find_old"]
    /\ UNCHANGED <<server, calls, resp, stream>>

\* doc['updated'] = utc_now_iso(); old = find_one({user_email, id});
\* doc['created'] = doc['updated'] when there is no old document
SaveFindOld(t) ==
    /\ pc[t] = "find_old"
    /\ server.now < MaxSaves
    /\ LET now == server.now + 1
           i == FirstById(server.docs, loc[t].doc.user_email, loc[t].doc.id)
       IN  /\ server' = [server EXCEPT !.now = now]
           /\ loc' = [loc EXCEPT ![t].doc.updated = now,
                                 ![t].doc.created = IF i = 0 THEN now ELSE NoCreated]
    /\ pc' = [pc EXCEPT ![t] = "replace_scan"]
    /\ UNCHANGED <<calls, resp, stream>>

\* the loop of replace_one: the index of the first matching document
ReplaceScan(t) ==
    /\ pc[t] = "replace_scan"
    /\ loc' = [loc EXCEPT ![t].i =
                 FirstById(server.docs, loc[t].doc.user_email, loc[t].doc.id)]
    /\ pc' = [pc EXCEPT ![t] = "replace_write"]
    /\ UNCHANGED <<server, calls, resp, stream>>

\* self._docs[i] = doc.copy(), or the append of the upsert; an index past
\* the end of a list that shrank in between raises
ReplaceWrite(t) ==
    /\ pc[t] = "replace_write"
    /\ IF loc[t].i = 0
       THEN /\ Len(server.docs) < MaxDocs
            /\ server' = [server EXCEPT !.docs = Append(@, loc[t].doc)]
            /\ loc' = [loc EXCEPT ![t].status = 200]
       ELSE IF loc[t].i <= Len(server.docs)
            THEN /\ server' = [server EXCEPT !.docs[loc[t].i] = loc[t].doc]
                 /\ loc' = [loc EXCEPT ![t].status = 200]
            ELSE /\ server' = server
                 /\ loc' = [loc EXCEPT ![t].status = 500]
    /\ pc' = [pc EXCEPT ![t] = "idle"]
    /\ UNCHANGED <<calls, resp, stream>>

\* delete_chat: delete_one({user_email, id})
DeleteChat(t, email, id) ==
    /\ pc[t] = "idle"
    /\ LET i == FirstById(server.docs, email, id)
       IN  server' = [server EXCEPT !.docs = IF i = 0 THEN @ ELSE RemoveAt(@, i)]
    /\ loc' = [loc EXCEPT ![t] = [ChatIdle EXCEPT !.status = 200]]
    /\ UNCHANGED <<pc, calls, resp, stream>>

NextChats ==
    \/ \E t \in ChatThreads, email \in ChatUsers, id \in ChatIds, title \in ChatTitles :
          SaveBegin(t, email, id, title)
    \/ \E t \in ChatThreads : SaveFindOld(t)
    \/ \E t \in ChatThreads : ReplaceScan(t)
    \/ \E t \in ChatThreads : ReplaceWrite(t)
    \/ \E t \in ChatThreads, email \in ChatUsers, id \in ChatIds \ {""} : DeleteChat(t, email, id)

SpecChats == InitChats /\ [][NextChats]_vars

----------------------------------------------------------------------------
(* Claims *)

\* a request body without a usable prompt
PromptMissing == loc.prompt \in {NoPrompt, ""}

\* tokenizer is None or llm is None, read from the module state
NoModel == ~server.tokenizer \/ ~server.llm

\* C1: while a /llama-chat request whose body sets `fallback` to true (the
\* boolean or one of the strings "1", "true", "yes") is handled, llm.generate
\* is never invoked, whatever the prompt, lang, ageGroup and model state.
C1_FallbackNeverGenerates ==
    (loc.endpoint = "chat" /\ loc.fb_req) => calls.generate = 0

\* C1 failing case: a request that set `fallback` was answered 200 after
\* llm.generate had been called for the Hindi prompt
C1_Witness ==
    /\ loc.endpoint = "chat" /\ loc.fb_req /\ loc.lang_hint = "hi-IN"
    /\ server.rag_ready /\ pc = "done" /\ resp.status = 200
    /\ calls.generate = 1

\* the reliability condition of the spec, on a retrieved count and a score
ReliableCondition(n, score) == n > 0 /\ score # NoScore /\ score >= 140

\* C2: in /llama-chat and /llama-chat-stream retrieval is classified reliable
\* (rag_reliable, source "rag") exactly when at least one chunk was retrieved
\* and the score is defined and >= 0.70; otherwise the source is "general".
C2_ReliableIff ==
    /\ calls.search > 0 =>
          (loc.rag_reliable <=> ReliableCondition(loc.retrieved, loc.rag_score))
    /\ (resp.status = 200 /\ "source" \in resp.keys) =>
          /\ resp.source \in {"rag", "general"}
          /\ resp.source = "rag" <=>
                ReliableCondition(resp.retrieved_count, resp.rag_score)
    /\ \A i \in 1 .. Len(stream.lines) :
          stream.lines[i].done =>
             /\ stream.lines[i].source \in {"rag", "general"}
             /\ stream.lines[i].source = "rag" <=>
                   ReliableCondition(loc.retrieved, loc.rag_score)

\* C2 witness: a 200 response of /llama-chat classified "rag"
C2_Witness ==
    /\ pc = "done" /\ loc.endpoint = "chat" /\ resp.status = 200
    /\ resp.source = "rag" /\ resp.retrieved_count > 0 /\ resp.rag_score >= 140

\* C3: the score of a top-1 distance d is 1 - d for d in [0,1] and 1 - d/2
\* for d in (1,2], and every score that is produced lies in [0,1].
C3_ScoreOfDistance ==
    pc = "scored" =>
        /\ (0 <= loc.d0 /\ loc.d0 <= 100) => loc.rag_score = 200 - 2 * loc.d0
        /\ (100 < loc.d0 /\ loc.d0 <= 200) => loc.rag_score = 200 - loc.d0
        /\ loc.rag_score # NoScore => (0 <= loc.rag_score /\ loc.rag_score <= 200)

\* C3 witness: a distance of the second regime has been scored
C3_Witness == pc = "scored" /\ loc.d0 = 150 /\ loc.rag_score = 50

\* C4: with the tokenizer or the model unavailable and the RAG components
\* initialised, every /llama-chat request with a non-empty prompt ends in a
\* 200 whose result is a template of the fallback bank, and llm.generate is
\* never called.
C4_NoModelFallback ==
    (loc.endpoint = "chat" /\ NoModel /\ server.rag_ready) =>
        /\ calls.generate = 0
        /\ (pc = "done" /\ ~PromptMissing) =>
              /\ resp.status = 200
              /\ resp.result.tpl \in FallbackTemplates
              /\ resp.result.len > 0

\* C4 witness: a no-model request answered from the local-notes template
C4_Witness ==
    /\ loc.endpoint = "chat" /\ NoModel /\ server.rag_ready /\ pc = "done"
    /\ resp.status = 200 /\ resp.result.tpl = "notes" /\ calls.search = 1

\* C5: with the model unavailable, a bare greeting with ageGroup "kid" sent
\* to /llama-chat gets a 200 whose JSON has a non-empty result and the field
\* llm_used equal to false.
C5_KidGreetingNoModel ==
    (/\ loc.endpoint = "chat" /\ NoModel /\ server.rag_ready /\ pc = "done"
     /\ IsBareGreeting(StripLower(loc.prompt)) /\ loc.age_group = "kid") =>
        /\ resp.status = 200
        /\ resp.result.len > 0
        /\ "llm_used" \in resp.keys
        /\ ~resp.llm_used

\* C5 failing case: the greeting shortcut answered 200 without `llm_used`
C5_Witness ==
    /\ loc.endpoint = "chat" /\ NoModel /\ server.rag_ready /\ pc = "done"
    /\ IsBareGreeting(StripLower(loc.prompt)) /\ loc.age_group = "kid"
    /\ resp.status = 200 /\ resp.result.tpl = "greeting"
    /\ "llm_used" \notin resp.keys

\* C6: with the model unavailable, every /llama-chat request with lang
\* "hi-IN" and a non-empty prompt gets a Hindi-script template as result,
\* never the English one.
C6_HindiNoModel ==
    (/\ loc.endpoint = "chat" /\ NoModel /\ server.rag_ready /\ pc = "done"
     /\ ~PromptMissing /\ loc.lang_hint = "hi-IN") =>
        /\ resp.status = 200
        /\ resp.result.hi

\* C6 failing case: the welcome path answered a hi-IN request in English
C6_Witness ==
    /\ loc.endpoint = "chat" /\ NoModel /\ server.rag_ready /\ pc = "done"
    /\ loc.lang_hint = "hi-IN" /\ loc.welcome
    /\ resp.status = 200 /\ resp.result = WelcomeMessage /\ ~resp.result.hi

\* C7: a request to /llama-chat or /llama-chat-stream without a prompt (or
\* with an empty one) is answered 400 with an `error` key in every server
\* state, without retrieval or generation.
C7_MissingPrompt400 ==
    (pc = "done" /\ PromptMissing) =>
        /\ resp.status = 400
        /\ "error" \in resp.keys
        /\ calls = NoCalls

\* C7 failing case: /llama-chat answered a body without prompt with 503
C7_Witness ==
    /\ loc.endpoint = "chat" /\ pc = "done" /\ loc.prompt = NoPrompt
    /\ ~server.rag_ready /\ resp.status = 503

\* C8: with the RAG components not initialised and
\* LLAMA_ALLOW_FALLBACK_WITHOUT_RAG set, a request with a non-empty prompt is
\* not rejected and is answered 200 with a templated answer, for every prompt.
C8_FallbackWithoutRag ==
    (/\ ~server.rag_ready /\ server.LLAMA_ALLOW_FALLBACK_WITHOUT_RAG
     /\ pc = "done" /\ ~PromptMissing) =>
        /\ resp.status = 200
        /\ loc.result.tpl \in FallbackTemplates

\* C8 failing case: with the override set, a non-greeting prompt sent to
\* /llama-chat was answered 500
C8_Witness ==
    /\ ~server.rag_ready /\ server.LLAMA_ALLOW_FALLBACK_WITHOUT_RAG
    /\ loc.endpoint = "chat" /\ pc = "done"
    /\ loc.prompt = "what is namami gange" /\ resp.status = 500

\* the {"done": true} lines written so far
DoneLines == {i \in 1 .. Len(stream.lines) : stream.lines[i].done}

\* C9: a /llama-chat-stream response that started streaming eventually
\* writes exactly one done line, which is the last line; until then the
\* stream can always make progress, also when the generation thread raises.
C9_StreamEndsWithDone ==
    (loc.endpoint = "stream" /\ resp.status = 200) =>
        /\ pc = "done" => DoneLines = {Len(stream.lines)}
        /\ pc # "done" => (DoneLines = {} /\ ENABLED Next)

\* C9 failing case: the generation thread raised, the queue is drained, and
\* the response generator waits for a stop signal that never comes
C9_Witness ==
    /\ loc.endpoint = "stream" /\ resp.status = 200 /\ pc = "iterating"
    /\ stream.thread = "raised" /\ stream.queue = <<>>
    /\ DoneLines = {} /\ ~ENABLED Next

\* the first generation of the current /llama-chat request returned a text
FirstGenerationDone ==
    /\ loc.endpoint = "chat"
    /\ pc \in {"continue", "translate_out", "done"}
    /\ loc.cont \notin {"none", "gen_failed"} \/ pc = "continue"
    /\ calls.generate > 0

\* the continuation step of the current request is over
ContinuationSettled == FirstGenerationDone /\ pc # "continue"

\* the result still is the text built by generation (not yet translated)
ResultUntranslated == pc = "translate_out" \/ ~IsHindi(loc.lang_hint)

\* C10, as stated: the text appears truncated when the token count is within
\* 2 of max_new_tokens or the text does not end in '.', '!' or '?'; then
\* exactly one continuation call is issued, and none otherwise.
C10_ContinuationAsStated ==
    ContinuationSettled =>
        LET appears == \/ loc.gen_token_count >= loc.max_new_tokens - 2
                       \/ ~loc.first.term
        IN  /\ (appears /\ ~loc.force_fallback) => calls.continuation = 1
            /\ ~appears => calls.continuation = 0
            /\ calls.continuation <= 1

\* C10, amended: the text appears truncated when the token count is within 2
\* of a positive max_new_tokens, or the text is longer than 40 characters
\* and does not end in '.', '!' or '?'.  Then, unless tokenizing the
\* continuation prompt raises, exactly one continuation call is issued and a
\* non-empty output of it is appended to the result; when the text does not
\* appear truncated no continuation call is issued; no request issues more
\* than one continuation call.
C10_ContinuationOnce ==
    /\ calls.continuation <= 1
    /\ ContinuationSettled =>
        LET appears == \/ loc.gen_token_count >= loc.max_new_tokens - 2
                       \/ (loc.first.len > TRUNC_MIN_LEN /\ ~loc.first.term)
        IN  /\ (appears /\ ~loc.force_fallback /\ loc.cont # "tok_raise")
                  => calls.continuation = 1
            /\ (appears /\ loc.cont = "appended" /\ ResultUntranslated)
                  => /\ loc.result.tpl = "llm"
                     /\ loc.result.len =
                           IF loc.first.len = 0 THEN ContLen
                           ELSE loc.first.len + 1 + ContLen
            /\ loc.cont = "appended" => appears
            /\ ~appears => (calls.continuation = 0 /\ loc.cont = "not_needed")

\* C10 witness: a truncated first text was continued and the continuation
\* appended
C10_Witness ==
    /\ ContinuationSettled /\ pc = "done" /\ resp.status = 200
    /\ loc.truncated /\ loc.cont = "appended" /\ calls.continuation = 1
    /\ loc.gen_token_count < loc.max_new_tokens - 2
    /\ resp.result.len = loc.first.len + 1 + ContLen

\* the current /llama-chat request passed retrieval and prompt assembly with
\* the model loaded and reached the tokenizer call of the Generate state
ReachedGeneration ==
    /\ loc.endpoint = "chat" /\ server.tokenizer /\ server.llm
    /\ ~PromptMissing /\ loc.max_new_tokens > 0

\* C11: a /llama-chat request with a valid prompt and the model loaded ends
\* in a 200 with a non-empty result even when the tokenizer call, a generate
\* call or decoding raises; a failed generation gives a fallback template and
\* never a 500.
C11_GenerationFailureIs200 ==
    (ReachedGeneration /\ pc = "done") =>
        /\ resp.status = 200
        /\ resp.result.len > 0
        /\ loc.cont = "gen_failed" => loc.result.tpl \in FallbackTemplates

\* C11 failing case: the tokenizer call of the Generate state raised and the
\* request was answered 500
C11_Witness ==
    /\ ReachedGeneration /\ pc = "done" /\ server.rag_ready
    /\ calls.search = 1 /\ calls.generate = 0 /\ resp.status = 500

\* C12: the result of every 200 response of /llama-chat is a non-empty
\* string; a text that is empty after the optional continuation is replaced
\* by the conversational fallback, and the Hindi back-translation never
\* empties it again.
C12_ResultNeverEmpty ==
    /\ (loc.endpoint = "chat" /\ pc = "done" /\ resp.status = 200) =>
          ("result" \in resp.keys /\ resp.result.len > 0)
    /\ (ContinuationSettled /\ loc.first.len = 0 /\ loc.cont # "appended"
        /\ ResultUntranslated) =>
          loc.result = ConversationalFallback(loc.prompt, loc.age_group,
                                              loc.lang_hint)
    /\ (ContinuationSettled /\ pc = "done") => loc.result.len > 0

\* C12 witness: the first text was cleaned to nothing, the continuation
\* decoded to nothing, and the response carries the conversational fallback
C12_Witness ==
    /\ ContinuationSettled /\ pc = "done" /\ resp.status = 200
    /\ loc.first.len = 0 /\ loc.cont = "empty" /\ calls.continuation = 1
    /\ resp.result.tpl \in FallbackTemplates /\ resp.result.len > 0

\* the current /llama-chat-stream request asks for bypass: `fallback` is true
\* in its body or LLAMA_FORCE_FALLBACK is set in the environment
StreamBypassAsked ==
    loc.endpoint = "stream" /\ (loc.fb_req \/ server.LLAMA_FORCE_FALLBACK)

\* C13: a /llama-chat-stream request that asks for bypass is handled as when
\* the model is unavailable: llm.generate is never called and the done line
\* of its stream has llm_used = false, even when the model is loaded.
C13_StreamBypass ==
    StreamBypassAsked =>
        /\ calls.generate = 0
        /\ \A i \in DoneLines : ~stream.lines[i].llm_used

\* C13 failing case: a stream request with `fallback` true ended with a done
\* line that says llm_used = true, after a generate call
C13_Witness ==
    /\ loc.endpoint = "stream" /\ loc.fb_req /\ pc = "done"
    /\ resp.status = 200 /\ calls.generate = 1
    /\ DoneLines = {Len(stream.lines)}
    /\ stream.lines[Len(stream.lines)].llm_used

\* the fields the interface promises in every 200 JSON body of /llama-chat
PromisedFields ==
    {"result", "retrieved_count", "rag_score", "source", "temperature", "top_p",
     "used_max_new_tokens", "latency_ms", "llm_used"}

\* C14: every 200 JSON response of /llama-chat, on the welcome path, the
\* greeting shortcut, the fallback branch and after generation, contains all
\* of result, retrieved_count, rag_score, source, temperature, top_p,
\* used_max_new_tokens, latency_ms and llm_used.
C14_ResponseFields ==
    (loc.endpoint = "chat" /\ pc = "done" /\ resp.status = 200) =>
        PromisedFields \subseteq resp.keys

\* C14 failing case: the forced-fallback branch answered 200 with a body
\* that lacks llm_used
C14_Witness ==
    /\ loc.endpoint = "chat" /\ pc = "done" /\ resp.status = 200
    /\ loc.force_fallback /\ calls.search = 1
    /\ PromisedFields \ resp.keys = {"llm_used"}

\* the prompt of the current request has been assembled (both handlers
\* assemble it right after retrieval and scoring)
PromptAssembled == calls.search > 0

\* C15: the assembled prompt holds exactly one of the two context-trust
\* instructions: the "primary source" line if and only if retrieval was
\* classified reliable, the "weak or missing" line otherwise, in both
\* handlers and for every age group and language.
C15_OneTrustLine ==
    PromptAssembled =>
        /\ Cardinality(loc.trust_line) = 1
        /\ "primary" \in loc.trust_line <=> loc.rag_reliable
        /\ "weak" \in loc.trust_line <=> ~loc.rag_reliable
        /\ "primary" \in loc.trust_line <=>
              ReliableCondition(loc.retrieved, loc.rag_score)

\* C15 witness: a Hindi kid request of /llama-chat is about to generate from
\* a prompt with the "primary source" line
C15_Witness ==
    /\ loc.endpoint = "chat" /\ pc = "generate" /\ PromptAssembled
    /\ loc.age_group = "kid" /\ loc.lang_hint = "hi-IN"
    /\ loc.rag_reliable /\ loc.trust_line = {"primary"}

\* the Generate state of the current /llama-chat request has built its
\* generate_kwargs and invoked llm.generate
GenerateInvoked ==
    loc.endpoint = "chat" /\ (pc = "continue" \/ loc.cont # "none")

\* C16: on a CPU device the Generate state invokes llm.generate with
\* deterministic decoding (do_sample = False) for every age group and
\* language of a request that asks for no sampling; sampling is the default
\* only on accelerated devices.
C16_CpuDeterministic ==
    GenerateInvoked => (loc.do_sample <=> server.device # "cpu")

\* C16 failing case: a plain request (no age group, no language) on a CPU
\* device was generated with do_sample = True
C16_Witness ==
    /\ GenerateInvoked /\ server.device = "cpu"
    /\ loc.age_group = "" /\ loc.lang_hint = ""
    /\ loc.temperature = BASE_TEMPERATURE /\ loc.top_p = TOP_P
    /\ loc.do_sample

\* C17: no synthesized audio file that is empty or smaller than 2000 bytes
\* is delivered as the speech of a request: on /tts, /fast-tts and
\* /generated_audio/<file> a generated file that is sent has at least 2000
\* bytes, and a smaller one is replaced by the bundled sample or, when the
\* sample is absent, by a JSON error.
C17_NoSmallAudioDelivered ==
    pc = "done" =>
        /\ resp.kind = "generated" => resp.size >= MIN_AUDIO_BYTES
        /\ (loc.endpoint \in {"tts", "fast-tts", "generated_audio"}
            /\ resp.kind # "generated" /\ loc.out_size # NoFile
            /\ loc.out_size < MIN_AUDIO_BYTES /\ resp.status \notin {400, 503}) =>
              IF server.sample THEN resp.kind = "sample" ELSE resp.kind = "error"

\* C17 failing case: the empty file synthesized for a /llama-chat answer was
\* delivered through /generated_audio/<file>
C17_Witness ==
    /\ pc = "done" /\ loc.endpoint = "generated_audio" /\ loc.audio_url
    /\ resp.status = 200 /\ resp.kind = "generated" /\ resp.size = 0

\* the index holds no vector: SimpleIndex(None) or a matrix without rows
EmptyIndex == server.none \/ Len(server.embeddings) = 0

\* C18: for every corpus, query matrix and k >= 1 (k beyond the size of the
\* corpus included), SimpleIndex.search and IndexFlatL2.search return arrays
\* of the same shape with the neighbours in the same order.
C18_SameShapeAndOrder ==
    pc = "searched" =>
        /\ loc.simple.rows = loc.faiss.rows
        /\ loc.simple.cols = loc.faiss.cols
        /\ loc.simple.I = loc.faiss.I

C18_Witness ==
    /\ pc = "searched"
    /\ Len(loc.Q) = 1
    /\ loc.k > Len(server.chunks)
    /\ Len(server.chunks) > 0
    /\ loc.simple.cols < loc.faiss.cols

\* C19: SimpleIndex.search on an index without vectors returns D and I of
\* shape (q, 0), and the chat handler then has zero retrieved chunks, no
\* score and an unreliable retrieval.
C19_EmptyIndexSearch ==
    EmptyIndex =>
        /\ pc \in {"searched", "retrieved"} =>
              /\ loc.simple.rows = Len(loc.Q)
              /\ loc.simple.cols = 0
              /\ \A r \in 1 .. Len(loc.Q) : loc.simple.D[r] = <<>> /\ loc.simple.I[r] = <<>>
              /\ ~loc.simple.div0
        /\ (pc = "retrieved" /\ Len(loc.Q) >= 1) =>
              /\ ~loc.raised
              /\ loc.retrieved = 0
              /\ loc.rag_score = NoScore
              /\ ~loc.rag_reliable

C19_Witness ==
    /\ pc = "retrieved"
    /\ EmptyIndex
    /\ Len(loc.Q) = 1
    /\ loc.k = TOP_K
    /\ loc.retrieved = 0

\* C20: hash_embed of a text without tokens (empty or blank) is the zero
\* vector, obtained without a division by zero, and SimpleIndex.search with
\* such a query row divides by no zero and gives distance 1 to every
\* neighbour of that row.
C20_ZeroQuery ==
    \A r \in 1 .. Len(loc.Q) :
        Split(loc.texts[r]) = <<>> =>
            /\ \A i \in 0 .. EMBED_DIM - 1 : loc.Q[r].v[i] = 0
            /\ loc.Q[r].n2 = 0
            /\ ~loc.Q[r].div0
            /\ pc \in {"searched", "retrieved"} =>
                  /\ ~loc.simple.div0
                  /\ \A c \in 1 .. loc.simple.cols : loc.simple.D[r][c] = 100

C20_Witness ==
    /\ pc = "searched"
    /\ Len(loc.Q) = 1
    /\ loc.texts[1] = <<" ">>
    /\ loc.simple.cols = 2

\* C21: whenever a continuation call is issued, its max_new_tokens is
\* strictly greater than that of the first call and its max_time is strictly
\* greater than the first call's max_time, for every preset, age group,
\* language, device and override.
C21_ContinuationBudgetLarger ==
    pc = "continued" =>
        /\ loc.extra_budget > loc.max_new_tokens
        /\ loc.has_time => (loc.extra_has_time /\ loc.extra_time > loc.max_time)

C21_Witness ==
    /\ pc = "continued"
    /\ server.env_tokens = 512
    /\ loc.age_group = "adult"
    /\ loc.max_new_tokens = 512
    /\ loc.extra_budget = 512

\* C24: without an override of the tokens or of the time, the max_new_tokens
\* and max_time of a request on a CPU are strictly smaller than those of the
\* same request on an accelerated device, for every preset, age group and
\* language.
C24_CpuBudgetsSmaller ==
    (pc = "generated" /\ server.device = "cpu"
        /\ server.env_tokens = NoEnv /\ server.env_time = NoEnv) =>
        /\ loc.max_new_tokens <
              BudgetTokens(NoEnv, "cuda", loc.speed, loc.age_group, loc.lang, loc.prompt)
        /\ loc.max_time < BudgetTime(NoEnv, "cuda", loc.speed)
        /\ loc.has_time

C24_Witness ==
    /\ pc = "generated"
    /\ server.device = "cpu"
    /\ server.env_tokens = NoEnv /\ server.env_time = NoEnv
    /\ loc.age_group = "kid" /\ loc.speed = "quality" /\ IsHindi(loc.lang)
    /\ loc.max_new_tokens = 180

\* C22: under any interleaving of get_piper_voices calls, a call without
\* force_refresh returns the cached list without a scan only when that list
\* is not empty and its scan started less than 300 seconds before the call;
\* and, outside the two stores of a call, the stored timestamp is that of
\* the scan that produced the stored list.
C22_CacheCoherent ==
    /\ \A t \in Threads :
          (pc[t] = "returned" /\ loc[t].cached) =>
              /\ ~loc[t].force_refresh
              /\ ~loc[t].result.empty
              /\ loc[t].now - loc[t].result.start < PIPER_TTL
    /\ (\A t \in Threads : pc[t] # "store_time") =>
          server.cache.time = server.cache.list.now

C22_Witness ==
    \E t \in Threads :
        /\ pc[t] = "returned"
        /\ loc[t].cached
        /\ ~loc[t].result.empty
        /\ loc[t].now - loc[t].result.start >= PIPER_TTL
        /\ \A u \in Threads : u # t => pc[u] \in {"idle", "done"}

\* 1 - cosine of a query row with row e of the index, in hundredths
CosineDistance(q, e) == 100 - Sim100(q, server.embeddings[e], EMBED_DIM)

\* C23: for an index with N >= 1 rows, search returns for each query row
\* exactly min(k, N) pairs (distance, index), with distinct indices in
\* [0, N), each distance being 1 - cosine of the query with the row of that
\* index, in ascending order of distance, and no omitted row is closer than
\* a returned one.
C23_SimpleSearchContract ==
    (pc \in {"searched", "retrieved"} /\ ~EmptyIndex) =>
        LET N == Len(server.embeddings)
            cols == Min2(loc.k, N)
        IN  /\ loc.simple.rows = Len(loc.Q)
            /\ loc.simple.cols = cols
            /\ \A r \in 1 .. Len(loc.Q) :
                  LET D == loc.simple.D[r]
                      I == loc.simple.I[r]
                  IN  /\ DOMAIN D = 1 .. cols /\ DOMAIN I = 1 .. cols
                      /\ \A c \in 1 .. cols : I[c] \in 0 .. N - 1
                      /\ \A c, d \in 1 .. cols : c # d => I[c] # I[d]
                      /\ \A c \in 1 .. cols : D[c] = CosineDistance(loc.Q[r], I[c] + 1)
                      /\ \A c, d \in 1 .. cols : c < d => D[c] <= D[d]
                      /\ \A e \in 1 .. N :
                            (\A c \in 1 .. cols : I[c] # e - 1) =>
                                \A c \in 1 .. cols : D[c] <= CosineDistance(loc.Q[r], e)

C23_Witness ==
    /\ pc = "searched"
    /\ Len(server.embeddings) = 2
    /\ loc.k = 1
    /\ Len(loc.Q) = 1
    /\ loc.simple.cols = 1
    /\ loc.simple.I[1][1] = 1
    /\ loc.simple.D[1][1] < CosineDistance(loc.Q[1], 1)

\* C25: the score is monotone in the top-1 distance: whenever d1 < d2 and
\* both distances get a score, the score of d1 is at least the score of d2.
C25_ScoreMonotone ==
    (pc = "scored" /\ loc.rag_score # NoScore) =>
        \A d2 \in Distances :
            (loc.d0 < d2 /\ RagScore(d2) # NoScore) => loc.rag_score >= RagScore(d2)

C25_Witness ==
    /\ pc = "scored"
    /\ loc.d0 = 100
    /\ loc.rag_score = 0
    /\ RagScore(120) = 80

\* C26: for the same corpus and the same query, the chat handler reaches the
\* same reliable / unreliable classification with the SimpleIndex and with
\* the IndexFlatL2 index.
C26_SameClassification ==
    (pc = "retrieved" /\ ~loc.raised) => loc.rag_reliable = loc.with_faiss.rag_reliable

C26_Witness ==
    /\ pc = "retrieved"
    /\ server.chunks = << <<"a", " ", "b">> >>
    /\ loc.texts = << <<"a">> >>
    /\ loc.k = TOP_K
    /\ loc.retrieved = 1 /\ loc.with_faiss.retrieved = 1
    /\ loc.rag_reliable
    /\ ~loc.with_faiss.rag_reliable

\* a 200 response of /llama-chat that carries llm_used
ChatAnswerWithFlag ==
    /\ loc.endpoint = "chat" /\ pc = "done" /\ resp.status = 200
    /\ "llm_used" \in resp.keys

\* C27 as stated: in every /llama-chat response with llm_used = true the
\* result was produced by llm.generate, and whenever the result is a fallback
\* template llm_used is false.
C27_LlmUsedAsStated ==
    ChatAnswerWithFlag =>
        /\ resp.llm_used => resp.result.tpl = "llm"
        /\ resp.result.tpl \in FallbackTemplates => ~resp.llm_used

\* C27, amended: llm_used = true says that the request went through the
\* generation branch (model loaded, fallback not forced, llm.generate
\* called); its result is a text of the model or, when generation raised or
\* left an empty text, the conversational fallback template, and llm_used is
\* true in that case as well.
C27_LlmUsedIsBranch ==
    ChatAnswerWithFlag =>
        /\ resp.llm_used => (ReachedGeneration /\ ~loc.force_fallback /\ calls.generate >= 1)
        /\ resp.llm_used =>
              \/ resp.result.tpl = "llm"
              \/ resp.result = ConversationalFallback(loc.prompt, loc.age_group,
                                                      loc.lang_hint)
        /\ loc.cont = "gen_failed" => resp.llm_used

C27_Witness ==
    /\ ChatAnswerWithFlag
    /\ loc.cont = "gen_failed"
    /\ resp.llm_used
    /\ resp.result.tpl \in FallbackTemplates

\* C28: after rag_utils has loaded, whatever writes of earlier saves failed
\* silently, the loaded embeddings and the index have len(chunks) rows and
\* come from the corpus of the loaded chunks, so every index a search or
\* query returns names an existing chunk, the one it was embedded from.
C28_ArtifactsConsistent ==
    pc \in {"loaded", "queried"} =>
        /\ loc.embeddings.n = loc.chunks.n
        /\ loc.index.n = loc.chunks.n
        /\ loc.embeddings = loc.chunks
        /\ loc.index = loc.chunks
        /\ pc = "queried" => (loc.idx < loc.chunks.n /\ ~loc.raised /\ ~loc.skipped)

C28_Witness ==
    /\ pc = "queried"
    /\ ~server.faiss_ok
    /\ ~loc.built
    /\ loc.chunks.n = 2
    /\ loc.embeddings.n = 3
    /\ loc.idx = 2
    /\ loc.raised

\* C29: a save under an id that the user already has stored replaces the
\* title, the messages and `updated` of the stored chat and leaves its
\* `created` as the first save set it.
C29_CreatedKept ==
    [][\A t \in ChatThreads :
          (/\ pc[t] = "replace_write" /\ pc'[t] = "idle"
           /\ loc[t].i \in DOMAIN server.docs
           /\ MatchId(server.docs[loc[t].i], loc[t].doc.user_email, loc[t].doc.id)) =>
              /\ server'.docs[loc[t].i].title = loc[t].doc.title
              /\ server'.docs[loc[t].i].updated = loc[t].doc.updated
              /\ server'.docs[loc[t].i].created = server.docs[loc[t].i].created]_vars

C29_Witness ==
    /\ \A t \in ChatThreads : pc[t] = "idle"
    /\ Len(server.docs) = 1
    /\ server.docs[1].id = "1"
    /\ server.docs[1].updated = 2
    /\ server.docs[1].created = NoCreated
    /\ server.now = 2

\* C30: after any interleaving of saves and deletes, each user has at most
\* one stored chat titled "Welcome Chat" and at most one stored chat per id.
C30_NoDuplicates ==
    \A i, j \in DOMAIN server.docs :
        (i # j /\ server.docs[i].user_email = server.docs[j].user_email) =>
            /\ server.docs[i].id # server.docs[j].id
            /\ ~(server.docs[i].title = SPECIAL_WELCOME_TITLE
                 /\ server.docs[j].title = SPECIAL_WELCOME_TITLE)

C30_Witness ==
    /\ \A t \in ChatThreads : pc[t] = "idle" /\ loc[t].status = 200
    /\ Len(server.docs) = 2
    /\ server.docs[1].id = "1" /\ server.docs[2].id = "2"
    /\ server.docs[1].title = SPECIAL_WELCOME_TITLE
    /\ server.docs[2].title = SPECIAL_WELCOME_TITLE

====
